---- MODULE Spec2Model ----
(***************************************************************************)
(* The research agent of temporal-worker: the ResearchWorkflow loop, the   *)
(* tool validator and the dynamic tool dispatcher it calls, and the merge  *)
(* of tool results into the research context.                              *)
(*                                                                         *)
(* Python dicts are functions with a domain of strings; a key test         *)
(* ("k" in d) is a test on DOMAIN.  An f-string is the sequence of its      *)
(* pieces.  Python's None is the value None below; argument values are     *)
(* strings, of which "" and None are the falsy ones.                       *)
(***************************************************************************)
EXTENDS Integers, Sequences, FiniteSets, TLC

\* Number of papers a successful search returns at most.
MaxPapers == 2

\* Number of merges in a row on one workflow object.
MaxMerges == 2

\* Number of register_tool and unregister_tool calls in a row.
MaxOps == 3

\* Attempts of one activity call the engine is followed through.
MaxAttempts == 4

\* Citations written in one paper text.
MaxCitations == 3

\* ArxivMCPServerClient objects created in one process.
MaxClients == 2

\* ResearchWorkflow.__init__: self.max_iterations = 10
max_iterations == 10

None == "<None>"

Has(d, k) == k \in DOMAIN d

Get(d, k) == IF k \in DOMAIN d THEN d[k] ELSE None

Put(d, k, v) == [x \in (DOMAIN d) \cup {k} |-> IF x = k THEN v ELSE d[x]]

\* bool(v) of an argument value
Truthy(v) == v # None /\ v # ""

\* d.get("success") of a result dict, as a condition
SuccessOf(d) == Has(d, "success") /\ d["success"] = TRUE

(***************************************************************************)
(* activities/tool_registry_activities.py                                  *)
(***************************************************************************)

\* The keys of TOOL_DESCRIPTIONS in insertion order.
TOOL_NAMES ==
  << "arxiv_search_papers", "arxiv_download_paper", "arxiv_list_papers",
     "arxiv_read_paper", "arxiv_get_metadata", "arxiv_deep_analysis",
     "extract_citations", "analyze_citation_network", "process_pdf",
     "extract_sections", "find_similar_papers", "calculate_similarity" >>

\* An argument's description is kept by the marker the validator looks for:
\* "Optional:" when the text starts with "Optional:", "text" when it holds
\* no form of the word optional.
TOOL_DESCRIPTIONS ==
  [ arxiv_search_papers |->
      [args |-> [query |-> "text", max_results |-> "Optional:",
                 category |-> "Optional:", date_from |-> "Optional:",
                 date_to |-> "Optional:", sort_by |-> "Optional:"]],
    arxiv_download_paper |->
      [args |-> [paper_id |-> "text", force_download |-> "Optional:"]],
    arxiv_list_papers |->
      [args |-> [category_filter |-> "Optional:", date_from |-> "Optional:",
                 limit |-> "Optional:"]],
    arxiv_read_paper |->
      [args |-> [paper_id |-> "text", include_metadata |-> "Optional:",
                 extract_sections |-> "Optional:"]],
    arxiv_get_metadata |->
      [args |-> [paper_id |-> "text", include_citations |-> "Optional:",
                 force_refresh |-> "Optional:"]],
    arxiv_deep_analysis |->
      [args |-> [paper_id |-> "text"]],
    extract_citations |->
      [args |-> [paper_text |-> "Optional:", paper_url |-> "Optional:",
                 format |-> "Optional:"]],
    analyze_citation_network |->
      [args |-> [paper_ids |-> "text", depth |-> "Optional:"]],
    process_pdf |->
      [args |-> [pdf_url |-> "text", sections |-> "Optional:"]],
    extract_sections |->
      [args |-> [paper_text |-> "text", sections |-> "Optional:"]],
    find_similar_papers |->
      [args |-> [reference_paper |-> "text", search_corpus |-> "Optional:"]],
    calculate_similarity |->
      [args |-> [paper1_text |-> "text", paper2_text |-> "text"]] ]

get_available_tools == TOOL_NAMES

\* "Optional:" in d or "optional" in d.lower() or d.startswith("Optional")
is_optional(arg_desc) == arg_desc \in {"Optional:", "Optional"}

PaperIdTools ==
  {"arxiv_download_paper", "arxiv_read_paper", "arxiv_get_metadata",
   "arxiv_deep_analysis"}

\* an unknown tool let through
unknown_tool_passes(tool_name, tool_args) ==
  [valid |-> TRUE, tool_name |-> tool_name, validated_args |-> tool_args]

\* lines 144-149
unknown_tool(tool_name, tool_args) ==
  [valid |-> FALSE,
   reason |-> <<"Tool '", tool_name, "' not found in registry">>,
   available_tools |-> TOOL_NAMES]

\* lines 155-164: the list, as the set of its elements
missing_args(required_args, tool_args) ==
  {arg_name \in DOMAIN required_args :
     ~is_optional(required_args[arg_name]) /\ arg_name \notin DOMAIN tool_args}

\* one of the two fields asked for, not either
citations_source_missing_either(tool_args) ==
  ~Truthy(Get(tool_args, "paper_text")) \/ ~Truthy(Get(tool_args, "paper_url"))

\* line 169
citations_source_missing(tool_args) ==
  ~Truthy(Get(tool_args, "paper_text")) /\ ~Truthy(Get(tool_args, "paper_url"))

\* the arguments cut down to the ones the descriptor lists
valid_result_listed_only(tool_name, tool_args) ==
  [valid |-> TRUE, tool_name |-> tool_name,
   validated_args |->
     [k \in (DOMAIN tool_args) \cap (DOMAIN TOOL_DESCRIPTIONS[tool_name].args)
        |-> tool_args[k]]]

\* lines 198-202
valid_result(tool_name, tool_args) ==
  [valid |-> TRUE, tool_name |-> tool_name, validated_args |-> tool_args]

validate_tool_usage(tool_name, tool_args) ==
  IF tool_name \notin DOMAIN TOOL_DESCRIPTIONS
  THEN unknown_tool(tool_name, tool_args)
  ELSE
    LET required_args == TOOL_DESCRIPTIONS[tool_name].args
        ok == valid_result(tool_name, tool_args)
        bad(reason) == [valid |-> FALSE, reason |-> reason,
                        required_args |-> required_args]
    IN IF tool_name = "extract_citations"
       THEN IF citations_source_missing(tool_args)
            THEN bad(<<"extract_citations requires either '", "paper_text",
                       "' or '", "paper_url", "'">>)
            ELSE ok
       ELSE IF tool_name = "arxiv_search_papers"
       THEN IF ~Truthy(Get(tool_args, "query"))
            THEN bad(<<tool_name, " requires '", "query", "' parameter">>)
            ELSE ok
       ELSE IF tool_name \in PaperIdTools
       THEN IF ~Truthy(Get(tool_args, "paper_id"))
            THEN bad(<<tool_name, " requires '", "paper_id", "' parameter">>)
            ELSE ok
       ELSE IF missing_args(required_args, tool_args) # {}
       THEN bad(<<"Missing required arguments: ",
                  missing_args(required_args, tool_args)>>)
       ELSE ok

(***************************************************************************)
(* tools: what a call of a handler yields.  A handler either returns a     *)
(* value or raises; handler_mode says which for the run at hand: "ok" the  *)
(* collaborators answer, "fail" the handler reports its own failure by     *)
(* returning success=False, "raise" an exception leaves the handler.       *)
(***************************************************************************)

Returned(v) == [kind |-> "return", value |-> v]

\* a Python str in a place where the code may take it for a dict
Str(s) == [str |-> s]

\* isinstance(v, dict), for a value that is a dict or a str
IsDict(v) == ~Has(v, "str")

Raised(cls, msg) == [kind |-> "raise", cls |-> cls, msg |-> msg]

HandlerModes == {"ok", "fail", "raise"}

\* The papers of a search result: n entries, the first already downloaded.
Papers(n) == [i \in 1..n |-> [id |-> i, is_downloaded |-> (i = 1)]]

arxiv_search_papers(args, mode, n) ==
  IF ~Truthy(Get(args, "query"))
  THEN Returned([success |-> FALSE, error |-> <<"Search query is required">>,
                 papers |-> << >>])
  ELSE IF mode = "ok"
  THEN Returned([success |-> TRUE, query |-> args["query"],
                 papers |-> Papers(n), count |-> n])
  ELSE IF mode = "fail"
  THEN Returned([success |-> FALSE, error |-> <<"Search failed">>,
                 papers |-> << >>, query |-> args["query"]])
  ELSE Raised("AttributeError", <<"object has no attribute 'strip'">>)

arxiv_read_paper(args, mode) ==
  IF ~Truthy(Get(args, "paper_id"))
  THEN Returned([success |-> FALSE, error |-> <<"Paper ID is required">>])
  ELSE IF mode = "ok"
  THEN Returned([success |-> TRUE, paper_id |-> args["paper_id"],
                 content |-> Str("text"), format |-> "markdown"])
  ELSE IF mode = "fail"
  THEN Returned([success |-> FALSE,
                 error |-> <<"Paper ", args["paper_id"], " not found locally">>,
                 paper_id |-> args["paper_id"]])
  ELSE Raised("AttributeError", <<"object has no attribute 'get'">>)

\* The other handlers, by their envelope only.
other_handler(args, mode) ==
  IF mode = "ok" THEN Returned([success |-> TRUE])
  ELSE IF mode = "fail"
  THEN Returned([success |-> FALSE, error |-> <<"failed">>])
  ELSE Raised("RuntimeError", <<"handler raised">>)

\* handler(tool_args)
call_handler(handler, args, mode, n) ==
  IF handler = "arxiv_search_papers" THEN arxiv_search_papers(args, mode, n)
  ELSE IF handler = "arxiv_read_paper" THEN arxiv_read_paper(args, mode)
  ELSE other_handler(args, mode)

(***************************************************************************)
(* activities/dynamic_tool_activity.py                                     *)
(***************************************************************************)

\* tool name -> the handler the lazy import yields
HANDLERS ==
  [ arxiv_search_papers |-> "arxiv_search_papers",
    arxiv_download_paper |-> "arxiv_download_paper",
    arxiv_list_papers |-> "arxiv_list_papers",
    arxiv_read_paper |-> "arxiv_read_paper",
    arxiv_get_metadata |-> "arxiv_get_paper_metadata",
    arxiv_deep_analysis |-> "arxiv_deep_analysis",
    extract_citations |-> "extract_citations",
    analyze_citation_network |-> "analyze_citation_network",
    process_pdf |-> "process_pdf_content",
    extract_sections |-> "extract_paper_sections",
    find_similar_papers |-> "find_similar_papers",
    calculate_similarity |-> "calculate_paper_similarity" ]

\* the branch of process_pdf left out of the if/elif chain
get_tool_handler_without_pdf(tool_name) ==
  IF tool_name \in DOMAIN HANDLERS \ {"process_pdf"} THEN HANDLERS[tool_name] ELSE None

get_tool_handler(tool_name) ==
  IF tool_name \in DOMAIN HANDLERS THEN HANDLERS[tool_name] ELSE None

\* inspect.iscoroutinefunction: every handler of the tools package is async def;
\* "blocking_handler" stands for a plain def substituted for one of them.
iscoroutinefunction(handler) == handler # "blocking_handler"

\* except Exception catches the subclasses of Exception only.
IsException(cls) ==
  cls \notin {"CancelledError", "KeyboardInterrupt", "SystemExit"}

\* activity.info(): supplied by the engine
activity_metadata == [execution_time |-> "scheduled", attempt |-> "attempt"]

\* the check for an unresolved handler left out: None is called
run_tool_unchecked(handler, tool_name, tool_args, outcome) ==
  LET r == IF handler = None
           THEN Raised("TypeError", <<"'NoneType' object is not callable">>)
           ELSE outcome
  IN IF r.kind = "return"
     THEN Returned([success |-> TRUE, tool_name |-> tool_name,
                    result |-> r.value, metadata |-> activity_metadata])
     ELSE Returned([success |-> FALSE, tool_name |-> tool_name,
                    error |-> r.msg, error_type |-> r.cls,
                    metadata |-> activity_metadata])

\* the class of the exception lost: every failure reported as "Exception"
run_tool_class_lost(handler, tool_name, tool_args, outcome) ==
  LET r == IF handler = None
           THEN Raised("ValueError",
                       <<"Tool '", tool_name, "' not found in registry">>)
           ELSE outcome
  IN IF r.kind = "return"
     THEN Returned([success |-> TRUE, tool_name |-> tool_name,
                    result |-> r.value, metadata |-> activity_metadata])
     ELSE Returned([success |-> FALSE, tool_name |-> tool_name,
                    error |-> r.msg, error_type |-> "Exception",
                    metadata |-> activity_metadata])

\* the except clause re-raising what it caught
run_tool_reraise(handler, tool_name, tool_args, outcome) ==
  IF handler = None
  THEN Raised("ValueError", <<"Tool '", tool_name, "' not found in registry">>)
  ELSE IF outcome.kind = "return"
  THEN Returned([success |-> TRUE, tool_name |-> tool_name,
                 result |-> outcome.value, metadata |-> activity_metadata])
  ELSE outcome

\* The body of dynamic_tool_activity once the handler is resolved; outcome is
\* what invoking the handler yields.
run_tool(handler, tool_name, tool_args, outcome) ==
  LET r == IF handler = None
           THEN Raised("ValueError",
                       <<"Tool '", tool_name, "' not found in registry">>)
           ELSE IF iscoroutinefunction(handler)
           THEN outcome   \* await handler(tool_args)
           ELSE outcome   \* await run_in_executor(None, handler, tool_args)
  IN IF r.kind = "return"
     THEN Returned([success |-> TRUE, tool_name |-> tool_name,
                    result |-> r.value, metadata |-> activity_metadata])
     ELSE IF IsException(r.cls)
     THEN Returned([success |-> FALSE, tool_name |-> tool_name,
                    error |-> r.msg, error_type |-> r.cls,
                    metadata |-> activity_metadata])
     ELSE r

\* the value of the handler handed back as it is, with no envelope around it
dynamic_tool_activity_unwrapped(tool_name, tool_args, mode, n) ==
  call_handler(get_tool_handler(tool_name), tool_args, mode, n)

dynamic_tool_activity(tool_name, tool_args, mode, n) ==
  LET handler == get_tool_handler(tool_name)
  IN run_tool(handler, tool_name, tool_args,
              call_handler(handler, tool_args, mode, n))

(***************************************************************************)
(* workflows/research_workflow.py: _update_context_with_results.  st holds *)
(* the three attributes of the workflow object the merge writes, and       *)
(* whether the call raised.                                                *)
(***************************************************************************)

\* d.setdefault(k, []) followed by d[k] = xs: what was there is dropped
ExtendKeyOverwrite(rc, k, xs) == Put(rc, k, xs)

\* the tool names of the citation branch, the search tool among them
CitationToolsWithSearch ==
  {"extract_citations", "analyze_citation_network", "arxiv_search_papers"}

\* line 171
CitationTools == {"extract_citations", "analyze_citation_network"}

\* 'str' object has no attribute 'get'
StrHasNoGet == <<"'str' object has no attribute 'get'">>

\* sum(1 for paper in papers if paper.get("is_downloaded", False))
downloaded_count(papers) ==
  Cardinality({i \in 1..Len(papers) :
                 Has(papers[i], "is_downloaded") /\ papers[i]["is_downloaded"]})

\* d.setdefault(k, []) followed by an append of the elements of xs
ExtendKey(rc, k, xs) ==
  Put(rc, k, (IF Has(rc, k) THEN rc[k] ELSE << >>) \o xs)

\* the category branch of the merge: lines 138-195
merge_category(st, tool_result, tool_name) ==
  LET rc == st.research_context
  IN
  IF tool_name \in {"arxiv_search_papers", "arxiv_search"}
     /\ Has(tool_result, "papers")
  THEN
    LET dp == st.discovered_papers \o tool_result["papers"]
        rc1 == Put(rc, "papers_count", Len(dp))
        rc2 == IF tool_name = "arxiv_search_papers"
               THEN Put(rc1, "papers_downloaded",
                        downloaded_count(tool_result["papers"]))
               ELSE rc1
    IN [st EXCEPT !.discovered_papers = dp, !.research_context = rc2]
  ELSE IF tool_name = "arxiv_download_paper" /\ SuccessOf(tool_result)
  THEN
    [st EXCEPT !.research_context =
       ExtendKey(rc, "downloaded_papers",
                 IF Has(tool_result, "paper_id")
                 THEN <<tool_result["paper_id"]>> ELSE << >>)]
  ELSE IF tool_name = "arxiv_read_paper" /\ SuccessOf(tool_result)
  THEN
    LET rc1 == ExtendKey(rc, "read_papers",
                         IF Has(tool_result, "paper_id")
                         THEN <<tool_result["paper_id"]>> ELSE << >>)
        tracked == Has(tool_result, "content") /\ Has(tool_result, "paper_id")
        rc2 == IF ~tracked THEN rc1
               ELSE IF ~IsDict(tool_result["content"])
               THEN ExtendKey(rc1, "extracted_content", << >>)
               ELSE ExtendKey(rc1, "extracted_content",
                      << [paper_id |-> tool_result["paper_id"],
                          sections_found |->
                            IF Has(tool_result["content"], "sections")
                            THEN Cardinality(DOMAIN tool_result["content"]["sections"])
                            ELSE 0] >>)
    IN [st EXCEPT !.research_context = rc2,
                  !.raised = tracked /\ ~IsDict(tool_result["content"])]
  ELSE IF tool_name \in CitationTools
  THEN
    LET rc1 == IF Has(tool_result, "citations")
               THEN ExtendKey(rc, "citations", tool_result["citations"])
               ELSE rc
        rc2 == IF Has(tool_result, "network")
               THEN Put(rc1, "citation_network", tool_result["network"])
               ELSE rc1
    IN [st EXCEPT !.research_context = rc2]
  ELSE IF tool_name \in {"process_pdf", "extract_sections"}
          /\ Has(tool_result, "content")
  THEN
    LET ar == Append(st.analysis_results, tool_result["content"])
    IN [st EXCEPT !.analysis_results = ar,
                  !.research_context = Put(rc, "analysis_count", Len(ar))]
  ELSE IF tool_name \in {"find_similar_papers", "calculate_similarity"}
  THEN
    LET rc1 == IF Has(tool_result, "similar_papers")
               THEN ExtendKey(rc, "similar_papers", tool_result["similar_papers"])
               ELSE rc
        rc2 == IF Has(tool_result, "similarity")
               THEN ExtendKey(rc1, "similarity_scores",
                              <<tool_result["similarity"]>>)
               ELSE rc1
    IN [st EXCEPT !.research_context = rc2]
  ELSE st

\* lines 197-205: the entry a call appends when it gets that far;
\* st.raised says that the call ended in the AttributeError of line 167
update_context_with_results(st, tool_result, tool_name, now) ==
  LET m == merge_category(st, tool_result, tool_name)
  IN IF m.raised THEN m
     ELSE [m EXCEPT !.research_context =
             ExtendKey(m.research_context, "tool_results",
                       << [tool |-> tool_name, result |-> tool_result,
                           timestamp |-> now] >>)]

(***************************************************************************)
(* activities/llm_activities.py: what the two LLM activities return.       *)
(* llm_ok says whether the completion call and the parse of its answer     *)
(* went through.                                                           *)
(***************************************************************************)

\* the fallback plan left empty
llm_plan_research_empty_fallback(research_query, llm_ok) ==
  IF llm_ok
  THEN [success |-> TRUE, plan |-> [key_concepts |-> <<"concept">>],
        query |-> research_query]
  ELSE [success |-> FALSE, error |-> <<"llm call failed">>,
        fallback_plan |-> [key_concepts |-> << >>, search_terms |-> << >>,
                           strategy |-> "basic_search"]]

llm_plan_research(research_query, llm_ok) ==
  IF llm_ok
  THEN [success |-> TRUE, plan |-> [key_concepts |-> <<"concept">>],
        query |-> research_query]
  ELSE [success |-> FALSE, error |-> <<"llm call failed">>,
        fallback_plan |-> [key_concepts |-> <<research_query>>,
                           search_terms |-> <<research_query>>,
                           strategy |-> "basic_search"]]

\* Arguments that pass the validation of a modelled tool, and arguments
\* that fail it for each of them.
ValidArgs(tool_name) ==
  IF tool_name = "arxiv_search_papers" THEN [query |-> "X"]
  ELSE IF tool_name = "arxiv_read_paper" THEN [paper_id |-> "p1"]
  ELSE [pdf_url |-> "u1"]

InvalidArgs == [limit |-> "5"]

\* The JSON objects the analyzer's model may answer with in a run whose
\* planner works with the tool t.
Proposals(t) ==
  { [action |-> "complete", reason |-> <<"enough">>],
    [action |-> "use_tool", tool_name |-> t, tool_args |-> ValidArgs(t),
     reason |-> <<"use it">>],
    [action |-> "use_tool", tool_name |-> t, tool_args |-> InvalidArgs,
     reason |-> <<"required argument left out">>],
    [action |-> "use_tool", tool_name |-> "web_search",
     tool_args |-> [query |-> "X"], reason |-> <<"unknown tool">>],
    [action |-> "use_tool", reason |-> <<"no tool named">>],
    [action |-> "wait", tool_name |-> t, tool_args |-> ValidArgs(t),
     reason |-> <<"other action">>],
    [tool_name |-> t, tool_args |-> ValidArgs(t)] }

SearchProposal ==
  [action |-> "use_tool", tool_name |-> "arxiv_search_papers",
   tool_args |-> [query |-> "X"], reason |-> <<"use it">>]

generate_research_summary(research_context, llm_ok) ==
  IF llm_ok
  THEN [success |-> TRUE, summary |-> "summary text",
        research_stats |->
          [papers_analyzed |->
             IF Has(research_context, "tool_results")
             THEN Len(research_context["tool_results"]) ELSE 0,
           iterations_completed |-> research_context["iteration"]]]
  ELSE [success |-> FALSE, error |-> <<"llm call failed">>,
        fallback_summary |->
          "Research summary could not be generated due to technical issues."]

\* the failure of the model answered by a proposal to go on
llm_analyze_failure_continues(research_context, available_tools, analysis_type, llm_ok, proposal) ==
  IF analysis_type = "summarize"
  THEN generate_research_summary(research_context, llm_ok)
  ELSE IF llm_ok THEN proposal
  ELSE [action |-> "continue", reason |-> <<"Analysis failed: ", "llm call failed">>,
        error |-> TRUE]

\* llm_analyze: proposal is the parsed answer of the model when llm_ok
llm_analyze(research_context, available_tools, analysis_type, llm_ok, proposal) ==
  IF analysis_type = "summarize"
  THEN generate_research_summary(research_context, llm_ok)
  ELSE IF llm_ok THEN proposal
  ELSE [action |-> "complete", reason |-> <<"Analysis failed: ", "llm call failed">>,
        error |-> TRUE]

(***************************************************************************)
(* workflows/research_workflow.py: ResearchWorkflow.run as a state machine.*)
(* pc names the await the run is suspended at.                             *)
(***************************************************************************)

VARIABLES
  pc,                 \* where the run is
  research_context,   \* self.research_context
  discovered_papers,  \* self.discovered_papers
  analysis_results,   \* self.analysis_results
  iteration,          \* the loop variable of run
  available_tools,    \* local of run
  next_action,        \* local of run
  tool_validation,    \* local of run
  result,             \* the value run returns
  planner_tool,       \* environment: the tool the planner works with in this run
  handler_mode,       \* environment: how that tool's handler behaves in this run
  search_papers,      \* environment: papers a successful search returns
  call,               \* a single activity call made outside a run, and its result
  analyze_calls,      \* history: llm_analyze calls in next_action mode
  dispatch_calls,     \* history: dynamic_tool_activity calls
  summarize_calls,    \* history: llm_analyze calls in summarize mode
  only_search,        \* history: every proposal so far was SearchProposal
  raises,             \* history: str(e) of the exceptions the except of run caught
  attempt,            \* engine: number of the attempt of the activity awaited
  cancelled,          \* engine: the cancellation of the run was requested
  TOOL_REGISTRY,            \* tools/registry.py: TOOL_REGISTRY
  REGISTRY_TOOL_DESCRIPTIONS,  \* tools/registry.py: TOOL_DESCRIPTIONS
  storage,            \* tools/arxiv_client_mcp.py: the files under storage_path
  clients,            \* the ArxivMCPServerClient objects created so far
  _mcp_client,        \* tools/arxiv_client_mcp.py: the global _mcp_client
  tasks               \* the coroutines that call into arxiv_client_mcp

vars ==
  << pc, research_context, discovered_papers, analysis_results, iteration,
     available_tools, next_action, tool_validation, result, planner_tool,
     handler_mode, search_papers, call, analyze_calls, dispatch_calls,
     summarize_calls, only_search, raises, attempt, cancelled,
     TOOL_REGISTRY, REGISTRY_TOOL_DESCRIPTIONS, storage, clients, _mcp_client,
     tasks >>

\* a local that holds nothing yet
Unset == [unset |-> TRUE]

\* the status named after the iterations left, not the iteration at hand
IterationStatusCountdown(i) ==
  << "iteration_9", "iteration_8", "iteration_7", "iteration_6", "iteration_5",
     "iteration_4", "iteration_3", "iteration_2", "iteration_1", "iteration_0",
     "iteration_0" >>[i + 1]

\* f"iteration_{iteration}"
IterationStatus(i) ==
  << "iteration_0", "iteration_1", "iteration_2", "iteration_3", "iteration_4",
     "iteration_5", "iteration_6", "iteration_7", "iteration_8", "iteration_9",
     "iteration_10" >>[i + 1]

\* the tools the planner of a run may work with
ModelledTools == {"arxiv_search_papers", "arxiv_read_paper", "process_pdf"}

\* the loop bound taken one too far
LoopContinuesOffByOne(i) == i <= max_iterations

\* range(self.max_iterations) has a next element
LoopContinues(i) == i < max_iterations

\* the break on "complete" left out
AnalyzeBranchNoBreak(na) ==
  IF Has(na, "tool_name") /\ Has(na, "tool_args") THEN "validate" ELSE "sleep"

\* lines 75-80: where the proposal sends the iteration
AnalyzeBranch(na) ==
  IF Get(na, "action") = "complete" THEN "summarize"
  ELSE IF Has(na, "tool_name") /\ Has(na, "tool_args") THEN "validate"
  ELSE "sleep"

\* the outcome of the validation ignored
ValidateBranchIgnored(tv) == "dispatch"

\* lines 87 and 98
ValidateBranch(tv) == IF tv["valid"] THEN "dispatch" ELSE "sleep"

(***************************************************************************)
(* tools/registry.py: the two tables of the module and the functions that  *)
(* read and change them.  tables is the pair of the two dicts.             *)
(***************************************************************************)

\* lines 25-41: TOOL_REGISTRY as the module is loaded; it names the functions
\* the dispatcher's own table names
TOOL_REGISTRY_AT_IMPORT == HANDLERS

\* lines 44-148: TOOL_DESCRIPTIONS of registry.py as the module is loaded.
\* An argument's description is kept by what it holds of the word optional:
\* "Optional:" the marker with its colon, "Optional" the word without the
\* colon, "text" neither.
REGISTRY_TOOL_DESCRIPTIONS_AT_IMPORT ==
  [ arxiv_search_papers |->
      [args |-> [query |-> "text", max_results |-> "Optional:",
                 category |-> "Optional:", date_from |-> "Optional:",
                 date_to |-> "Optional:", sort_by |-> "Optional:"]],
    arxiv_download_paper |->
      [args |-> [paper_id |-> "text", force_download |-> "Optional:"]],
    arxiv_list_papers |->
      [args |-> [category_filter |-> "Optional:", date_from |-> "Optional:",
                 limit |-> "Optional:"]],
    arxiv_read_paper |->
      [args |-> [paper_id |-> "text", include_metadata |-> "Optional:",
                 extract_sections |-> "Optional:"]],
    arxiv_get_metadata |->
      [args |-> [paper_id |-> "text", include_citations |-> "Optional:",
                 force_refresh |-> "Optional:"]],
    arxiv_deep_analysis |->
      [args |-> [paper_id |-> "text"]],
    extract_citations |->
      [args |-> [paper_text |-> "text", paper_url |-> "text"]],
    analyze_citation_network |->
      [args |-> [paper_ids |-> "text", depth |-> "text"]],
    process_pdf |->
      [args |-> [pdf_url |-> "text", sections |-> "Optional"]],
    extract_sections |->
      [args |-> [paper_text |-> "text", sections |-> "text"]],
    find_similar_papers |->
      [args |-> [reference_paper |-> "text", search_corpus |-> "Optional:"]],
    calculate_similarity |->
      [args |-> [paper1_text |-> "text", paper2_text |-> "text"]] ]

RegistryStart ==
  /\ TOOL_REGISTRY = TOOL_REGISTRY_AT_IMPORT
  /\ REGISTRY_TOOL_DESCRIPTIONS = REGISTRY_TOOL_DESCRIPTIONS_AT_IMPORT

(***************************************************************************)
(* tools/arxiv_client_mcp.py: the state of the module and of its storage.  *)
(***************************************************************************)

\* line 313: _mcp_client = None; a client is named by its place in clients
NoClient == 0

\* the coroutines that call into the module at the same time
Tasks == {"t1", "t2"}

\* lines 35-47 and 77-79 on a new storage directory, and lines 313-314
ToolsStart ==
  /\ storage = [paper_files |-> {}, metadata_files |-> {},
                papers_index |-> << >>]
  /\ clients = << >>
  /\ _mcp_client = NoClient
  /\ tasks = [t \in Tasks |-> [pc |-> "idle", client |-> NoClient, ret |-> Unset]]

\* del d[k]
Del(d, k) == [x \in (DOMAIN d) \ {k} |-> d[x]]

\* the pair of the two tables
Tables(tool_registry, tool_descriptions) ==
  [TOOL_REGISTRY |-> tool_registry, TOOL_DESCRIPTIONS |-> tool_descriptions]

\* registry.get_tool_handler: TOOL_REGISTRY.get(tool_name)
registry_get_tool_handler(tool_registry, tool_name) ==
  Get(tool_registry, tool_name)

\* a name already registered keeps the handler and the description it had
register_tool_keeps_existing(tables, name, handler, description) ==
  IF Has(tables.TOOL_REGISTRY, name) THEN tables
  ELSE Tables(Put(tables.TOOL_REGISTRY, name, handler),
              Put(tables.TOOL_DESCRIPTIONS, name, description))

\* lines 226-237
register_tool(tables, name, handler, description) ==
  Tables(Put(tables.TOOL_REGISTRY, name, handler),
         Put(tables.TOOL_DESCRIPTIONS, name, description))

\* the description of the removed tool left in its table
unregister_tool_keeps_description(tables, name) ==
  IF Has(tables.TOOL_REGISTRY, name)
  THEN [tables |-> Tables(Del(tables.TOOL_REGISTRY, name),
                          tables.TOOL_DESCRIPTIONS),
        ret |-> TRUE]
  ELSE [tables |-> tables, ret |-> FALSE]

\* lines 240-257: the tables after the call and the value returned
unregister_tool(tables, name) ==
  IF Has(tables.TOOL_REGISTRY, name)
  THEN [tables |-> Tables(Del(tables.TOOL_REGISTRY, name),
                          IF Has(tables.TOOL_DESCRIPTIONS, name)
                          THEN Del(tables.TOOL_DESCRIPTIONS, name)
                          ELSE tables.TOOL_DESCRIPTIONS),
        ret |-> TRUE]
  ELSE [tables |-> tables, ret |-> FALSE]

\* lines 192-196 of tools/registry.py: the list, as the set of its elements;
\* an argument is optional to this validator when its description holds
\* "Optional:" with the colon
registry_missing_args(required_args, tool_args) ==
  {arg_name \in DOMAIN required_args :
     required_args[arg_name] # "Optional:" /\ arg_name \notin DOMAIN tool_args}

\* tools/registry.py lines 163-209: validate_tool_usage of the registry
\* module, on the tables of that module
registry_validate_tool_usage(tables, tool_name, tool_args) ==
  IF ~Has(tables.TOOL_REGISTRY, tool_name)
  THEN [valid |-> FALSE,
        reason |-> <<"Tool '", tool_name, "' not found in registry">>,
        available_tools |-> DOMAIN tables.TOOL_REGISTRY]
  ELSE IF ~Has(tables.TOOL_DESCRIPTIONS, tool_name)
  THEN [valid |-> FALSE,
        reason |-> <<"Tool '", tool_name, "' missing description metadata">>]
  ELSE
    LET required_args == tables.TOOL_DESCRIPTIONS[tool_name].args
        missing == registry_missing_args(required_args, tool_args)
    IN IF missing # {}
       THEN [valid |-> FALSE,
             reason |-> <<"Missing required arguments: ", missing>>,
             required_args |-> required_args]
       ELSE [valid |-> TRUE, tool_name |-> tool_name,
             validated_args |-> tool_args]

\* the state run() starts the try block in: lines 36-42
RunStart ==
  /\ research_context =
       [query |-> "X", user_id |-> "u1", document_id |-> None,
        iteration |-> 0, status |-> "initializing"]
  /\ discovered_papers = << >>
  /\ analysis_results = << >>
  /\ iteration = 0
  /\ available_tools = << >>
  /\ next_action = Unset
  /\ tool_validation = Unset
  /\ result = Unset
  /\ analyze_calls = 0
  /\ dispatch_calls = 0
  /\ summarize_calls = 0
  /\ only_search = TRUE
  /\ raises = << >>
  /\ attempt = 1
  /\ cancelled = FALSE

Init ==
  /\ pc = "plan"
  /\ call = Unset
  /\ RunStart
  /\ RegistryStart
  /\ ToolsStart
  /\ planner_tool \in ModelledTools
  /\ handler_mode \in HandlerModes
  /\ search_papers \in
       IF planner_tool = "arxiv_search_papers" /\ handler_mode = "ok"
       THEN 0..MaxPapers ELSE {0}

registry == << TOOL_REGISTRY, REGISTRY_TOOL_DESCRIPTIONS >>

tools == << storage, clients, _mcp_client, tasks >>

env == << planner_tool, handler_mode, search_papers, call, cancelled, registry, tools >>

history ==
  << analyze_calls, dispatch_calls, summarize_calls, only_search, raises >>

\* lines 46-54
PlanReturns ==
  /\ pc = "plan"
  /\ attempt' = 1
  /\ \E llm_ok \in BOOLEAN :
       research_context' =
         Put(Put(research_context, "plan",
                 llm_plan_research(research_context["query"], llm_ok)),
             "status", "planning_complete")
  /\ pc' = "loop"
  /\ UNCHANGED << discovered_papers, analysis_results, iteration,
                  available_tools, next_action, tool_validation, result,
                  env, history >>

\* the status of the iteration set and the iteration field left as it was
LoopHeadStaleIteration ==
  /\ pc = "loop"
  /\ attempt' = 1
  /\ IF LoopContinues(iteration)
     THEN /\ research_context' =
               Put(research_context, "status", IterationStatus(iteration))
          /\ pc' = "get_tools"
     ELSE /\ research_context' = Put(research_context, "status", "summarizing")
          /\ pc' = "summarize"
  /\ UNCHANGED << discovered_papers, analysis_results, iteration,
                  available_tools, next_action, tool_validation, result,
                  env, history >>

\* lines 57-59, and the exit of the for loop to line 105
LoopHead ==
  /\ pc = "loop"
  /\ attempt' = 1
  /\ IF LoopContinues(iteration)
     THEN /\ research_context' =
               Put(Put(research_context, "iteration", iteration),
                   "status", IterationStatus(iteration))
          /\ pc' = "get_tools"
     ELSE /\ research_context' = Put(research_context, "status", "summarizing")
          /\ pc' = "summarize"
  /\ UNCHANGED << discovered_papers, analysis_results, iteration,
                  available_tools, next_action, tool_validation, result,
                  env, history >>

\* lines 62-65
GetTools ==
  /\ pc = "get_tools"
  /\ attempt' = 1
  /\ available_tools' = get_available_tools
  /\ pc' = "analyze"
  /\ UNCHANGED << research_context, discovered_papers, analysis_results,
                  iteration, next_action, tool_validation, result, env, history >>

\* lines 68-80, and line 105 after the break
Analyze ==
  /\ pc = "analyze"
  /\ attempt' = 1
  /\ \E llm_ok \in BOOLEAN, proposal \in Proposals(planner_tool) :
       LET na == llm_analyze(research_context, available_tools, "next_action",
                             llm_ok, proposal)
       IN /\ next_action' = na
          /\ only_search' = (only_search /\ na = SearchProposal)
          /\ pc' = AnalyzeBranch(na)
          /\ research_context' =
               IF pc' = "summarize"
               THEN Put(research_context, "status", "summarizing")
               ELSE research_context
  /\ analyze_calls' = analyze_calls + 1
  /\ UNCHANGED << discovered_papers, analysis_results, iteration,
                  available_tools, tool_validation, result, env,
                  dispatch_calls, summarize_calls, raises >>

\* lines 81-87 and 98-99
Validate ==
  /\ pc = "validate"
  /\ attempt' = 1
  /\ tool_validation' =
       validate_tool_usage(next_action["tool_name"], next_action["tool_args"])
  /\ pc' = ValidateBranch(tool_validation')
  /\ UNCHANGED << research_context, discovered_papers, analysis_results,
                  iteration, available_tools, next_action, result, env,
                  history >>

\* the attributes of the workflow object the merge works on
Attributes ==
  [research_context |-> research_context,
   discovered_papers |-> discovered_papers,
   analysis_results |-> analysis_results,
   raised |-> FALSE]

\* the merge of one result done twice over
MergedTwice(tool_result, tool_name, now) ==
  update_context_with_results(
    update_context_with_results(Attributes, tool_result, tool_name, now),
    tool_result, tool_name, now)

\* the merge applied to the attributes of the workflow object
Merged(tool_result, tool_name, now) ==
  update_context_with_results(Attributes, tool_result, tool_name, now)

\* str(e) of the failure an activity call raises into the workflow
ActivityError == <<"Activity task failed">>

\* the failure path returning a fresh context in place of the run's
FailedFreshContext(rc, e) ==
  LET ctx == [query |-> rc["query"], status |-> "failed", error |-> e]
  IN /\ research_context' = ctx
     /\ result' = [success |-> FALSE, error |-> e, research_context |-> ctx]
     /\ pc' = "done"

\* the error recorded and the status left as it was
FailedStatusKept(rc, e) ==
  LET ctx == Put(rc, "error", e)
  IN /\ research_context' = ctx
     /\ result' = [success |-> FALSE, error |-> e, research_context |-> ctx]
     /\ pc' = "done"

\* the failure recorded and the loop entered again
FailedRestartsLoop(rc, e) ==
  LET ctx == Put(Put(rc, "status", "failed"), "error", e)
  IN /\ research_context' = ctx
     /\ result' = result
     /\ pc' = "loop"

\* lines 123-132
Failed(rc, e) ==
  LET ctx == Put(Put(rc, "status", "failed"), "error", e)
  IN /\ research_context' = ctx
     /\ result' = [success |-> FALSE, error |-> e, research_context |-> ctx]
     /\ pc' = "done"

\* lines 89-97: workflow.now() is a clock that ticks with every dispatch
Dispatch ==
  /\ pc = "dispatch"
  /\ attempt' = 1
  /\ LET out == dynamic_tool_activity(next_action["tool_name"],
                                      next_action["tool_args"],
                                      handler_mode,
                                      search_papers)
     IN IF out.kind = "return"
        THEN LET m == Merged(out.value, next_action["tool_name"], dispatch_calls)
             IN /\ discovered_papers' = m.discovered_papers
                /\ analysis_results' = m.analysis_results
                /\ IF m.raised
                   THEN /\ Failed(m.research_context, StrHasNoGet)
                        /\ raises' = Append(raises, StrHasNoGet)
                   ELSE /\ research_context' = m.research_context
                        /\ pc' = "sleep"
                        /\ UNCHANGED << result, raises >>
        ELSE /\ Failed(research_context, out.msg)
             /\ raises' = Append(raises, out.msg)
             /\ UNCHANGED << discovered_papers, analysis_results >>
  /\ dispatch_calls' = dispatch_calls + 1
  /\ UNCHANGED << iteration, available_tools, next_action, tool_validation,
                  env, analyze_calls, summarize_calls, only_search >>

\* line 102 and the step of the for loop; the proposal and the validation
\* of the iteration are read no more
Sleep ==
  /\ pc = "sleep"
  /\ attempt' = 1
  /\ iteration' = iteration + 1
  /\ next_action' = Unset
  /\ tool_validation' = Unset
  /\ pc' = "loop"
  /\ UNCHANGED << research_context, discovered_papers, analysis_results,
                  available_tools, result, env, history >>

\* a summary with success=false taken for a failure of the run
SummarizeDegradedFails ==
  /\ pc = "summarize"
  /\ attempt' = 1
  /\ \E llm_ok \in BOOLEAN :
       LET final_summary == llm_analyze(research_context, << >>, "summarize",
                                        llm_ok, Unset)
           ctx == Put(Put(research_context, "status", "completed"),
                      "summary", final_summary)
       IN IF final_summary["success"]
          THEN /\ research_context' = ctx
               /\ result' = [success |-> TRUE, research_context |-> ctx,
                             papers_discovered |-> Len(discovered_papers),
                             analysis_count |-> Len(analysis_results),
                             final_summary |-> final_summary]
               /\ pc' = "done"
          ELSE Failed(research_context, final_summary["error"])
  /\ summarize_calls' = summarize_calls + 1
  /\ UNCHANGED << discovered_papers, analysis_results, iteration,
                  available_tools, next_action, tool_validation, env,
                  analyze_calls, dispatch_calls, only_search, raises >>

\* lines 106-121
Summarize ==
  /\ pc = "summarize"
  /\ attempt' = 1
  /\ \E llm_ok \in BOOLEAN :
       LET final_summary == llm_analyze(research_context, << >>, "summarize",
                                        llm_ok, Unset)
           ctx == Put(Put(research_context, "status", "completed"),
                      "summary", final_summary)
       IN /\ research_context' = ctx
          /\ result' = [success |-> TRUE, research_context |-> ctx,
                        papers_discovered |-> Len(discovered_papers),
                        analysis_count |-> Len(analysis_results),
                        final_summary |-> final_summary]
  /\ summarize_calls' = summarize_calls + 1
  /\ pc' = "done"
  /\ UNCHANGED << discovered_papers, analysis_results, iteration,
                  available_tools, next_action, tool_validation, env,
                  analyze_calls, dispatch_calls, only_search, raises >>

AwaitingActivity ==
  pc \in {"plan", "get_tools", "analyze", "validate", "dispatch", "summarize"}

\* An awaited execute_activity raises into the workflow (the engine gave up
\* on the activity): lines 123-132
ActivityRaises ==
  /\ AwaitingActivity
  /\ Failed(research_context, ActivityError)
  /\ raises' = Append(raises, ActivityError)
  /\ UNCHANGED << discovered_papers, analysis_results, iteration,
                  available_tools, next_action, tool_validation, env,
                  analyze_calls, dispatch_calls, summarize_calls, only_search,
                  attempt >>

Next ==
  \/ PlanReturns
  \/ LoopHead
  \/ GetTools
  \/ Analyze
  \/ Validate
  \/ Dispatch
  \/ Sleep
  \/ Summarize
  \/ ActivityRaises

Spec == Init /\ [][Next]_vars

\* The engine lets no awaited step of a run wait for ever.
FairSpec == Spec /\ WF_vars(Next)

(***************************************************************************)
(* The signal update_research_focus: the engine runs its handler on the    *)
(* thread of the workflow while run is suspended at an await, that is      *)
(* while an activity is in flight or the sleep of line 102 lasts.          *)
(***************************************************************************)

\* the values a client sends as new_focus
FocusValues == {"f1", "f2"}

\* run is suspended at an await
Suspended == AwaitingActivity \/ pc = "sleep"

\* what a signal or a request of the engine leaves alone
RunLocals ==
  << pc, discovered_papers, analysis_results, iteration, available_tools,
     next_action, tool_validation, result, planner_tool, handler_mode,
     search_papers, call, history, attempt, registry, tools >>

\* the handler of the signal setting the status as well
UpdateResearchFocusSetsStatus ==
  /\ Suspended
  /\ \E new_focus \in FocusValues :
       research_context' =
         Put(Put(research_context, "updated_focus", new_focus),
             "status", "focus_updated")
  /\ UNCHANGED << RunLocals, cancelled >>

\* the handler of the signal emptying tool_results as well
UpdateResearchFocusClearsResults ==
  /\ Suspended
  /\ \E new_focus \in FocusValues :
       research_context' =
         Put(Put(research_context, "updated_focus", new_focus),
             "tool_results", << >>)
  /\ UNCHANGED << RunLocals, cancelled >>

\* lines 217-221
UpdateResearchFocus ==
  /\ Suspended
  /\ \E new_focus \in FocusValues :
       research_context' = Put(research_context, "updated_focus", new_focus)
  /\ UNCHANGED << RunLocals, cancelled >>

SignalNext == Next \/ UpdateResearchFocus

SignalSpec == Init /\ [][SignalNext]_vars

(***************************************************************************)
(* The cancellation of a run.  The engine raises it at the await run is    *)
(* suspended at: the await of an activity raises an ActivityError, an      *)
(* Exception the except of line 123 catches, or the CancelledError of      *)
(* asyncio, a BaseException that leaves run; the sleep of line 102 raises  *)
(* the CancelledError.  Which of the two an activity await raises is the   *)
(* engine's choice.                                                        *)
(***************************************************************************)

\* str(e) of the ActivityError of a cancelled activity
ActivityCancelled == <<"Activity cancelled">>

\* the request recorded and run left to go on
CancelIgnored ==
  /\ Suspended
  /\ ~cancelled
  /\ cancelled' = TRUE
  /\ UNCHANGED << research_context, RunLocals >>

\* the cancellation of the run, raised at the await run is suspended at
Cancel ==
  /\ Suspended
  /\ ~cancelled
  /\ cancelled' = TRUE
  /\ \/ /\ AwaitingActivity
        /\ Failed(research_context, ActivityCancelled)
        /\ raises' = Append(raises, ActivityCancelled)
     \/ /\ pc' = "cancelled"
        /\ UNCHANGED << research_context, result, raises >>
  /\ UNCHANGED << discovered_papers, analysis_results, iteration,
                  available_tools, next_action, tool_validation, planner_tool,
                  handler_mode, search_papers, call, analyze_calls,
                  dispatch_calls, summarize_calls, only_search, attempt,
                  registry, tools >>

CancelNext == Next \/ Cancel

CancelSpec == Init /\ [][CancelNext]_vars

(***************************************************************************)
(* The attempts of an activity.  The engine starts the activity again      *)
(* when an attempt times out or fails, as the retry policy of the call     *)
(* says, and raises into run when the policy allows no further attempt.    *)
(***************************************************************************)

\* the steps run awaits as activities
ActivitySteps ==
  {"plan", "get_tools", "analyze", "validate", "dispatch", "summarize"}

\* retry_policy=RetryPolicy(maximum_attempts=...) of the call; 0, the value
\* of a call that passes no retry_policy, stands for attempts without limit
maximum_attempts(step) ==
  IF step = "plan" THEN 3
  ELSE IF step \in {"analyze", "dispatch"} THEN 2
  ELSE 0

\* an attempt times out or fails and the engine starts the next one
AttemptFails ==
  /\ AwaitingActivity
  /\ attempt < MaxAttempts
  /\ maximum_attempts(pc) = 0 \/ attempt < maximum_attempts(pc)
  /\ attempt' = attempt + 1
  /\ UNCHANGED << pc, research_context, discovered_papers, analysis_results,
                  iteration, available_tools, next_action, tool_validation,
                  result, env, history >>

\* the last attempt the policy allows fails: the await raises
AttemptsExhausted ==
  /\ attempt = maximum_attempts(pc)
  /\ ActivityRaises

RetryNext ==
  \/ PlanReturns
  \/ LoopHead
  \/ GetTools
  \/ Analyze
  \/ Validate
  \/ Dispatch
  \/ Sleep
  \/ Summarize
  \/ AttemptFails
  \/ AttemptsExhausted

RetrySpec == Init /\ [][RetryNext]_vars

(***************************************************************************)
(* dynamic_tool_activity called on its own, for any tool name.             *)
(***************************************************************************)

DispatchNames ==
  {TOOL_NAMES[i] : i \in 1..Len(TOOL_NAMES)} \cup {"web_search", "arxiv_search"}

DispatchArgs == {[query |-> "X"], [paper_id |-> "p1"], [query |-> ""]}

DispatchInit ==
  /\ pc = "call"
  /\ RunStart
  /\ RegistryStart
  /\ ToolsStart
  /\ planner_tool = "arxiv_search_papers"
  /\ handler_mode = "ok"
  /\ search_papers = 0
  /\ \E t \in DispatchNames, a \in DispatchArgs, m \in HandlerModes :
       call = [tool_name |-> t, tool_args |-> a, mode |-> m,
               blocking |-> FALSE, returned |-> FALSE, out |-> Unset]

RunVars ==
  << research_context, discovered_papers, analysis_results, iteration,
     available_tools, next_action, tool_validation, result, planner_tool,
     handler_mode, search_papers, history, attempt, cancelled, registry, tools >>

\* dynamic_tool_activity(tool_name, tool_args)
DispatchCall ==
  /\ pc = "call"
  /\ call' = [call EXCEPT
       !.returned = TRUE,
       !.out = dynamic_tool_activity(call.tool_name, call.tool_args,
                                     call.mode, MaxPapers)]
  /\ pc' = "called"
  /\ UNCHANGED RunVars

\* the same call with a plain (blocking) function in place of the handler
DispatchBlockingCall ==
  /\ pc = "call"
  /\ get_tool_handler(call.tool_name) # None
  /\ call' = [call EXCEPT
       !.returned = TRUE,
       !.blocking = TRUE,
       !.out = run_tool("blocking_handler", call.tool_name, call.tool_args,
                        call_handler("blocking_handler", call.tool_args,
                                     call.mode, MaxPapers))]
  /\ pc' = "called"
  /\ UNCHANGED RunVars

DispatchNext == DispatchCall \/ DispatchBlockingCall

DispatchSpec == DispatchInit /\ [][DispatchNext]_vars

(***************************************************************************)
(* validate_tool_usage called on its own: any tool name, and for arguments *)
(* any choice of the keys the descriptor lists and of one it does not,     *)
(* each with a truthy value, the empty string or None.                     *)
(***************************************************************************)

ValidateNames == {TOOL_NAMES[i] : i \in 1..Len(TOOL_NAMES)} \cup {"web_search"}

\* a key no descriptor lists
ExtraKey == "extra"

ValidateKeys(tool_name) ==
  (IF tool_name \in DOMAIN TOOL_DESCRIPTIONS
   THEN DOMAIN TOOL_DESCRIPTIONS[tool_name].args
   ELSE {"query"}) \cup {ExtraKey}

ArgValues == {"v", "", None}

ValidateInit ==
  /\ pc = "call"
  /\ RunStart
  /\ RegistryStart
  /\ ToolsStart
  /\ planner_tool = "arxiv_search_papers"
  /\ handler_mode = "ok"
  /\ search_papers = 0
  /\ \E t \in ValidateNames :
       \E S \in SUBSET ValidateKeys(t) :
         \E a \in [S -> ArgValues] :
           call = [tool_name |-> t, tool_args |-> a, returned |-> FALSE,
                   out |-> Unset]

\* validate_tool_usage(tool_name, tool_args)
ValidateCall ==
  /\ pc = "call"
  /\ call' = [call EXCEPT
       !.returned = TRUE,
       !.out = validate_tool_usage(call.tool_name, call.tool_args)]
  /\ pc' = "called"
  /\ UNCHANGED RunVars

ValidateNext == ValidateCall

ValidateSpec == ValidateInit /\ [][ValidateNext]_vars

(***************************************************************************)
(* _update_context_with_results called on its own, MaxMerges times in a    *)
(* row on one workflow object, for tool names of every category and of     *)
(* none, with the envelopes the dispatcher returns, the values the         *)
(* handlers return, and results that hold every key the merge looks at.    *)
(***************************************************************************)

MergeNames ==
  {"arxiv_search_papers", "arxiv_search", "arxiv_download_paper",
   "arxiv_read_paper", "extract_citations", "analyze_citation_network",
   "process_pdf", "extract_sections", "find_similar_papers",
   "calculate_similarity", "arxiv_list_papers", "web_search"}

\* a result with every key a branch of the merge reads
FullResult(success) ==
  [success |-> success, papers |-> Papers(1), paper_id |-> "p1",
   content |-> [sections |-> [abstract |-> "a", method |-> "m"]],
   citations |-> <<"c1", "c2">>, network |-> [nodes |-> 2],
   similar_papers |-> <<"s1">>, similarity |-> 1]

\* a result with the keys of the citation and similarity branches only
OtherKeysResult ==
  [success |-> TRUE, citations |-> <<"c3">>, network |-> [nodes |-> 1],
   similar_papers |-> <<"s2">>, similarity |-> 2]

\* the arguments a tool is called with here
MergeArgs(tool_name) ==
  IF tool_name \in ModelledTools THEN ValidArgs(tool_name) ELSE [query |-> "X"]

\* the tool results a call may be given for a tool name
MergeResults(tool_name) ==
  << dynamic_tool_activity(tool_name, MergeArgs(tool_name), "ok", 1).value,
     call_handler(get_tool_handler(tool_name), MergeArgs(tool_name),
                  "ok", 1).value,
     call_handler(get_tool_handler(tool_name), MergeArgs(tool_name),
                  "fail", 1).value,
     FullResult(TRUE),
     FullResult(FALSE),
     OtherKeysResult >>

MergeInit ==
  /\ pc = "call"
  /\ RunStart
  /\ RegistryStart
  /\ ToolsStart
  /\ planner_tool = "arxiv_search_papers"
  /\ handler_mode = "ok"
  /\ search_papers = 0
  /\ call = [tool_name |-> None, tool_result |-> Unset, count |-> 0,
             raised |-> FALSE, raises |-> 0]

\* self._update_context_with_results(tool_result, tool_name)
MergeCall ==
  /\ pc = "call"
  /\ call.count < MaxMerges
  /\ \E t \in MergeNames :
       \E i \in 1..Len(MergeResults(t)) :
         LET m == Merged(MergeResults(t)[i], t, call.count)
         IN /\ research_context' = m.research_context
            /\ discovered_papers' = m.discovered_papers
            /\ analysis_results' = m.analysis_results
            /\ call' = [tool_name |-> t, tool_result |-> MergeResults(t)[i],
                        count |-> call.count + 1, raised |-> m.raised,
                        raises |-> call.raises + (IF m.raised THEN 1 ELSE 0)]
  /\ UNCHANGED << pc, iteration, available_tools, next_action,
                  tool_validation, result, planner_tool, handler_mode,
                  search_papers, history, attempt, cancelled, registry, tools >>

MergeNext == MergeCall

MergeSpec == MergeInit /\ [][MergeNext]_vars

(***************************************************************************)
(* tools/registry.py: register_tool and unregister_tool called MaxOps      *)
(* times in a row on the tables of the module as loaded.                   *)
(***************************************************************************)

\* the names the calls are made for: two new ones and one of the module's
RegistryNames == {"dummy_tool", "temp_tool", "process_pdf"}

\* the functions registered as handlers
RegistryHandlers == {"dummy_tool", "temp_tool"}

\* the description metadata registered
RegistryDescriptions ==
  << [description |-> "A dummy tool for testing",
      args |-> [test_arg |-> "text"], returns |-> "Dummy result"],
     [description |-> "temp", args |-> [x |-> "Optional:"],
      returns |-> "temp"] >>

RegistryInit ==
  /\ pc = "call"
  /\ RunStart
  /\ RegistryStart
  /\ ToolsStart
  /\ planner_tool = "arxiv_search_papers"
  /\ handler_mode = "ok"
  /\ search_papers = 0
  /\ call = [op |-> None, name |-> None, handler |-> None, ret |-> None,
             count |-> 0]

\* what a call in the registry specification leaves alone
RegistryFrame ==
  << pc, research_context, discovered_papers, analysis_results, iteration,
     available_tools, next_action, tool_validation, result, planner_tool,
     handler_mode, search_papers, history, attempt, cancelled, tools >>

\* register_tool(name, handler, description)
RegisterTool ==
  /\ pc = "call"
  /\ call.count < MaxOps
  /\ \E name \in RegistryNames, handler \in RegistryHandlers,
        i \in 1..Len(RegistryDescriptions) :
       LET t == register_tool(Tables(TOOL_REGISTRY, REGISTRY_TOOL_DESCRIPTIONS),
                              name, handler, RegistryDescriptions[i])
       IN /\ TOOL_REGISTRY' = t.TOOL_REGISTRY
          /\ REGISTRY_TOOL_DESCRIPTIONS' = t.TOOL_DESCRIPTIONS
          /\ call' = [op |-> "register_tool", name |-> name,
                      handler |-> handler, description |-> RegistryDescriptions[i],
                      ret |-> None, count |-> call.count + 1]
  /\ UNCHANGED RegistryFrame

\* unregister_tool(name)
UnregisterTool ==
  /\ pc = "call"
  /\ call.count < MaxOps
  /\ \E name \in RegistryNames :
       LET u == unregister_tool(Tables(TOOL_REGISTRY, REGISTRY_TOOL_DESCRIPTIONS),
                                name)
       IN /\ TOOL_REGISTRY' = u.tables.TOOL_REGISTRY
          /\ REGISTRY_TOOL_DESCRIPTIONS' = u.tables.TOOL_DESCRIPTIONS
          /\ call' = [op |-> "unregister_tool", name |-> name,
                      handler |-> None, ret |-> u.ret,
                      count |-> call.count + 1]
  /\ UNCHANGED RegistryFrame

RegistryNext == RegisterTool \/ UnregisterTool

RegistrySpec == RegistryInit /\ [][RegistryNext]_vars

(***************************************************************************)
(* tools/registry.py: validate_tool_usage called on its own, on the tables *)
(* as loaded.                                                              *)
(***************************************************************************)

RegistryValidateKeys(tool_name) ==
  (IF tool_name \in DOMAIN REGISTRY_TOOL_DESCRIPTIONS_AT_IMPORT
   THEN DOMAIN REGISTRY_TOOL_DESCRIPTIONS_AT_IMPORT[tool_name].args
   ELSE {"query"}) \cup {ExtraKey}

RegistryValidateInit ==
  /\ pc = "call"
  /\ RunStart
  /\ RegistryStart
  /\ ToolsStart
  /\ planner_tool = "arxiv_search_papers"
  /\ handler_mode = "ok"
  /\ search_papers = 0
  /\ \E t \in ValidateNames :
       \E S \in SUBSET RegistryValidateKeys(t) :
         \E a \in [S -> ArgValues] :
           call = [tool_name |-> t, tool_args |-> a, returned |-> FALSE,
                   out |-> Unset]

\* registry.validate_tool_usage(tool_name, tool_args)
RegistryValidateCall ==
  /\ pc = "call"
  /\ call' = [call EXCEPT
       !.returned = TRUE,
       !.out = registry_validate_tool_usage(
                 Tables(TOOL_REGISTRY, REGISTRY_TOOL_DESCRIPTIONS),
                 call.tool_name, call.tool_args)]
  /\ pc' = "called"
  /\ UNCHANGED RunVars

RegistryValidateNext == RegistryValidateCall

RegistryValidateSpec == RegistryValidateInit /\ [][RegistryValidateNext]_vars

(***************************************************************************)
(* tools/citation_analyzer.py: extract_citations called on its own.  A     *)
(* paper text is kept by the citations written in it, in the order they    *)
(* are written; each is what one of the four patterns captures.            *)
(***************************************************************************)

\* the citations a text may hold
WrittenCitations ==
  { [type |-> "numbered", reference_number |-> "10"],
    [type |-> "numbered", reference_number |-> "100"],
    [type |-> "author_year", author |-> "Smith", year |-> "2023"],
    [type |-> "doi", doi |-> "10.1234/x"],
    [type |-> "arxiv", arxiv_id |-> "2301.12345"] }

\* a text of positive length and the text ""
Text(cites) == [nonempty |-> TRUE, cites |-> cites]
EmptyText == [nonempty |-> FALSE, cites |-> << >>]

\* re.findall of the pattern of one type: the matches in the order of the text
findall(type, paper_text) ==
  SelectSeq(paper_text.cites, LAMBDA c : c.type = type)

\* lines 48-87: the entry appended for a match
citation_entry(c) ==
  IF c.type = "author_year"
  THEN [type |-> "author_year", author |-> c.author, year |-> c.year,
        format |-> "apa_style"]
  ELSE IF c.type = "numbered"
  THEN [type |-> "numbered", reference_number |-> c.reference_number,
        format |-> "ieee_style"]
  ELSE IF c.type = "doi"
  THEN [type |-> "doi", doi |-> c.doi, format |-> "doi_reference"]
  ELSE [type |-> "arxiv", arxiv_id |-> c.arxiv_id, format |-> "arxiv_reference"]

\* citation.get(k, '')
GetOrEmpty(citation, k) == IF Has(citation, k) THEN citation[k] ELSE ""

\* line 94: the f-string, as the tuple of its pieces
citation_key(citation) ==
  << citation["type"], "_", GetOrEmpty(citation, "author"),
     GetOrEmpty(citation, "year"), GetOrEmpty(citation, "doi"),
     GetOrEmpty(citation, "arxiv_id") >>

\* lines 90-97: the citations whose key was not seen before, in order
RECURSIVE unique_citations(_, _)
unique_citations(citations, seen) ==
  IF citations = << >> THEN << >>
  ELSE LET citation == Head(citations)
           key == citation_key(citation)
       IN IF key \in seen
          THEN unique_citations(Tail(citations), seen)
          ELSE << citation >> \o
               unique_citations(Tail(citations), seen \cup {key})

\* lines 48-87: the entry appended for each match of the pattern of a type
citation_entries(type, paper_text) ==
  LET matches == findall(type, paper_text)
  IN [i \in 1..Len(matches) |-> citation_entry(matches[i])]

\* lines 24-115, for args that hold paper_text and no paper_url
extract_citations(args) ==
  LET paper_text == args["paper_text"]
  IN IF ~paper_text.nonempty
     THEN [success |-> FALSE,
           error |-> <<"Either paper_text or paper_url is required">>,
           citations |-> << >>]
     ELSE LET citations ==
                citation_entries("author_year", paper_text)
                \o citation_entries("numbered", paper_text)
                \o citation_entries("doi", paper_text)
                \o citation_entries("arxiv", paper_text)
              unique == unique_citations(citations, {})
          IN [success |-> TRUE, citations |-> unique, count |-> Len(unique)]

\* the texts of at most n citations
RECURSIVE Texts(_)
Texts(n) ==
  IF n = 0 THEN { << >> }
  ELSE LET shorter == Texts(n - 1)
       IN shorter \cup
          {Append(t, c) : t \in {x \in shorter : Len(x) = n - 1},
                          c \in WrittenCitations}

CitationsInit ==
  /\ pc = "call"
  /\ RunStart
  /\ RegistryStart
  /\ ToolsStart
  /\ planner_tool = "arxiv_search_papers"
  /\ handler_mode = "ok"
  /\ search_papers = 0
  /\ \E paper_text \in {Text(t) : t \in Texts(MaxCitations)} \cup {EmptyText} :
       call = [args |-> [paper_text |-> paper_text], returned |-> FALSE,
               out |-> Unset]

\* extract_citations(args)
ExtractCitationsCall ==
  /\ pc = "call"
  /\ call' = [call EXCEPT !.returned = TRUE,
                          !.out = extract_citations(call.args)]
  /\ pc' = "called"
  /\ UNCHANGED RunVars

CitationsNext == ExtractCitationsCall

CitationsSpec == CitationsInit /\ [][CitationsNext]_vars

(***************************************************************************)
(* tools/arxiv_client_mcp.py: the global client.  Every coroutine of Tasks *)
(* calls ensure_mcp_server_available, get_mcp_client and                   *)
(* cleanup_mcp_client; a coroutine gives way to the others at the awaits   *)
(* of start_server and nowhere else before its writes are done.            *)
(***************************************************************************)

\* lines 45-47: ArxivMCPServerClient() as __init__ leaves it
NewClient == [server_process |-> FALSE, initialized |-> FALSE]

\* lines 29-47 and 67-79: the client a handler works with when no MCP
\* server runs: not initialized, its papers_index read from papers_index.json
LocalClient(st) == [initialized |-> FALSE, papers_index |-> st.papers_index]

\* what a coroutine holds when a call of it is over
TaskReturned(op, ret) == [pc |-> "idle", client |-> NoClient, op |-> op, ret |-> ret]

\* what the frame of the global-client calls leaves alone
ClientFrame ==
  << pc, research_context, discovered_papers, analysis_results, iteration,
     available_tools, next_action, tool_validation, result, planner_tool,
     handler_mode, search_papers, call, history, attempt, cancelled,
     registry, storage >>

ClientInit ==
  /\ pc = "call"
  /\ RunStart
  /\ RegistryStart
  /\ ToolsStart
  /\ planner_tool = "arxiv_search_papers"
  /\ handler_mode = "ok"
  /\ search_papers = 0
  /\ call = Unset

\* line 333 finds a client and line 336 returns at once
EnsureReturnsAtOnce(t) ==
  /\ tasks[t].pc = "idle"
  /\ _mcp_client # NoClient
  /\ tasks' = [tasks EXCEPT ![t] =
       TaskReturned("ensure_mcp_server_available", [value |-> TRUE])]
  /\ UNCHANGED << clients, _mcp_client >>

\* lines 333-335 and 321-323: the global is None; the client is made and
\* assigned, and the coroutine waits in start_server
StartsClient(t, op) ==
  /\ tasks[t].pc = "idle"
  /\ _mcp_client = NoClient
  /\ Len(clients) < MaxClients
  /\ clients' = Append(clients, NewClient)
  /\ _mcp_client' = Len(clients) + 1
  /\ tasks' = [tasks EXCEPT ![t] =
       [pc |-> "start_server", client |-> Len(clients) + 1, op |-> op,
        ret |-> Unset]]

EnsureCall(t) ==
  \/ EnsureReturnsAtOnce(t)
  \/ StartsClient(t, "ensure_mcp_server_available")

\* line 325 with a client there already
GetReturnsAtOnce(t) ==
  /\ tasks[t].pc = "idle"
  /\ _mcp_client # NoClient
  /\ tasks' = [tasks EXCEPT ![t] =
       TaskReturned("get_mcp_client", [client |-> _mcp_client])]
  /\ UNCHANGED << clients, _mcp_client >>

GetCall(t) ==
  \/ GetReturnsAtOnce(t)
  \/ StartsClient(t, "get_mcp_client")

\* what the caller of start_server does with its outcome: lines 336-339 and
\* line 325
AfterStart(op, started) ==
  IF op = "ensure_mcp_server_available"
  THEN [value |-> started]
  ELSE IF started THEN [client |-> _mcp_client]
  ELSE [raised |-> "RuntimeError"]

\* lines 90-142: start_server of the client the coroutine made comes to its
\* end: the handshake is done, or the process could not be started, or the
\* process runs and the handshake failed
StartServerEnds(t) ==
  /\ tasks[t].pc = "start_server"
  /\ \E outcome \in {"started", "no_process", "no_handshake"} :
       /\ clients' = [clients EXCEPT ![tasks[t].client] =
            [server_process |-> outcome # "no_process",
             initialized |-> outcome = "started"]]
       /\ tasks' = [tasks EXCEPT ![t] =
            TaskReturned(tasks[t].op, AfterStart(tasks[t].op, outcome = "started"))]
  /\ UNCHANGED _mcp_client

\* lines 342-348 and 289-300
CleanupCall(t) ==
  /\ tasks[t].pc = "idle"
  /\ IF _mcp_client # NoClient
     THEN /\ clients' = [clients EXCEPT ![_mcp_client] =
               IF @.server_process THEN NewClient ELSE @]
          /\ _mcp_client' = NoClient
     ELSE UNCHANGED << clients, _mcp_client >>
  /\ tasks' = [tasks EXCEPT ![t] = TaskReturned("cleanup_mcp_client", [none |-> TRUE])]

ClientNext ==
  /\ \E t \in Tasks :
       \/ EnsureCall(t)
       \/ GetCall(t)
       \/ StartServerEnds(t)
       \/ CleanupCall(t)
  /\ UNCHANGED ClientFrame

ClientSpec == ClientInit /\ [][ClientNext]_vars

(***************************************************************************)
(* tools/arxiv_client_mcp.py: arxiv_download_paper and arxiv_list_papers   *)
(* with no MCP server, so that both take their local branch.  st is the    *)
(* content of the storage directory; papers_index is the list of the keys  *)
(* of papers_index.json.                                                   *)
(***************************************************************************)

\* the paper ids of the calls
PaperIds == {"p1", "p2", "p3"}

\* lines 498-602 on the local branch: the storage after the call and the
\* value returned
arxiv_download_paper(st, args) ==
  LET paper_id == args["paper_id"]
      exists == paper_id \in st.paper_files
  IN IF ~Truthy(paper_id)
     THEN [storage |-> st,
           out |-> [success |-> FALSE, error |-> <<"Paper ID is required">>]]
     ELSE IF exists /\ ~args["force_download"]
     THEN [storage |-> st,
           out |-> [success |-> TRUE, paper_id |-> paper_id,
                    status |-> "already_downloaded", local_path |-> paper_id]]
     ELSE
       LET written == ~exists /\ ~args["check_status"]
           st1 == IF written
                  THEN [st EXCEPT !.paper_files = @ \cup {paper_id},
                                  !.metadata_files = @ \cup {paper_id}]
                  ELSE st
       IN [storage |-> st1,
           out |-> [success |-> TRUE, paper_id |-> paper_id,
                    status |-> IF args["check_status"] THEN "ready"
                               ELSE "downloaded",
                    local_path |-> paper_id]]

\* lines 641-652: the entry of one key of the index; the index holds no
\* categories for it
paper_data(st, paper_id) ==
  [id |-> paper_id, categories |-> << >>, local_path |-> paper_id,
   metadata_available |-> paper_id \in st.metadata_files]

\* lines 605-678 on the local branch
arxiv_list_papers(st, args) ==
  LET client == LocalClient(st)
      category_filter == args["category_filter"]
      limit == args["limit"]
      all == [i \in 1..Len(client.papers_index) |->
                paper_data(st, client.papers_index[i])]
      filtered == IF Truthy(category_filter)
                  THEN SelectSeq(all, LAMBDA p :
                         \E i \in 1..Len(p.categories) :
                           p.categories[i] = category_filter)
                  ELSE all
      papers == IF Len(filtered) > limit THEN SubSeq(filtered, 1, limit)
                ELSE filtered
  IN [success |-> TRUE, papers |-> papers, count |-> Len(papers),
      total_downloaded |-> Len(client.papers_index),
      filters_applied |-> [category_filter |-> category_filter,
                           limit |-> limit]]

\* what a call of a storage handler leaves alone
StorageFrame ==
  << pc, research_context, discovered_papers, analysis_results, iteration,
     available_tools, next_action, tool_validation, result, planner_tool,
     handler_mode, search_papers, history, attempt, cancelled, registry,
     clients, _mcp_client, tasks >>

StorageInit ==
  /\ pc = "call"
  /\ RunStart
  /\ RegistryStart
  /\ ToolsStart
  /\ planner_tool = "arxiv_search_papers"
  /\ handler_mode = "ok"
  /\ search_papers = 0
  /\ call = [op |-> None]

\* arxiv_download_paper(args)
DownloadPaper ==
  /\ \E paper_id \in PaperIds \cup {""}, force_download \in BOOLEAN,
        check_status \in BOOLEAN :
       LET args == [paper_id |-> paper_id, force_download |-> force_download,
                    check_status |-> check_status]
           r == arxiv_download_paper(storage, args)
       IN /\ storage' = r.storage
          /\ call' = [op |-> "arxiv_download_paper", args |-> args,
                      out |-> r.out]
  /\ UNCHANGED StorageFrame

\* arxiv_list_papers(args): limit is the default 100 or 1
ListPapers ==
  /\ \E category_filter \in {None, "cs.AI"}, limit \in {1, 100} :
       LET args == [category_filter |-> category_filter, limit |-> limit]
       IN call' = [op |-> "arxiv_list_papers", args |-> args,
                   out |-> arxiv_list_papers(storage, args)]
  /\ UNCHANGED << storage, StorageFrame >>

StorageNext == DownloadPaper \/ ListPapers

StorageSpec == StorageInit /\ [][StorageNext]_vars

(***************************************************************************)
(* Properties                                                              *)
(***************************************************************************)

Status == research_context["status"]

ToolResults ==
  IF Has(research_context, "tool_results")
  THEN research_context["tool_results"] ELSE << >>

Done == pc = "done"

\* the loop was left by a "complete" proposal
LeftByComplete == Get(next_action, "action") = "complete"

\* the position of a status in initializing, planning_complete, iteration_0,
\* ..., summarizing, completed | failed
StatusRank(st) ==
  LET names == << "initializing", "planning_complete", "iteration_0",
                  "iteration_1", "iteration_2", "iteration_3", "iteration_4",
                  "iteration_5", "iteration_6", "iteration_7", "iteration_8",
                  "iteration_9", "summarizing", "completed", "failed" >>
      k == CHOOSE i \in 1..Len(names) : names[i] = st
  IN IF st = "failed" THEN k - 1 ELSE k

\* C1: a run makes at most max_iterations llm_analyze next_action calls, and
\* exactly max_iterations of them when it completes without any proposal
\* having had the action "complete" (no activity raised, the loop ran out).
C1_IterationBound ==
  /\ analyze_calls <= max_iterations
  /\ (Done /\ Status = "completed" /\ ~LeftByComplete)
       => analyze_calls = max_iterations

C1_Witness ==
  Done /\ Status = "completed" /\ ~LeftByComplete /\ analyze_calls = max_iterations

\* C2: every step leaves the status where it is or moves it forward in the
\* order initializing, planning_complete, iteration_0, iteration_1, ...,
\* summarizing, completed | failed, and no step changes a status that is
\* completed or failed.
C2_StatusMonotonic ==
  [][ /\ StatusRank(Status') >= StatusRank(Status)
      /\ Status \in {"completed", "failed"} => Status' = Status ]_vars

C2_Witness ==
  Done /\ Status = "completed" /\ research_context["iteration"] = max_iterations - 1

\* C3: under fair scheduling every run ends, in status completed or failed;
\* the value returned has success=true and a final_summary exactly when the
\* status is completed, and otherwise success=false, an error and the
\* research context of the run, with every tool_results entry merged so far.
C3_Terminates ==
  /\ <>Done
  /\ [](Done =>
         /\ Status \in {"completed", "failed"}
         /\ result["success"] = (Status = "completed")
         /\ Has(result, "final_summary") = (Status = "completed")
         /\ Status = "completed" =>
              /\ result["final_summary"] = research_context["summary"]
         /\ Status = "failed" =>
              /\ Has(result, "error")
              /\ result["error"] = research_context["error"]
              /\ result["research_context"] = research_context
              /\ Len(ToolResults) = dispatch_calls
              /\ \A k \in 1..Len(ToolResults) : ToolResults[k]["timestamp"] = k - 1)

C3_Witness == Done /\ Status = "failed" /\ dispatch_calls = 3

\* C4: once llm_analyze has answered "complete" in iteration i, the run is
\* at the summary or has returned, without a validation or a dispatch in
\* iteration i or later and with iteration still i; it has failed only if the
\* summarize call raised, and when that call returned the run is completed
\* with a summary.  With "complete" in iteration 0 the run ends with
\* iteration 0 and no tool_results entry.
C4_CompleteStops ==
  LeftByComplete =>
    /\ pc \in {"summarize", "done"}
    /\ research_context["iteration"] = iteration
    /\ iteration = analyze_calls - 1
    /\ Len(ToolResults) = dispatch_calls
    /\ dispatch_calls <= iteration
    /\ Status \in {"summarizing", "completed", "failed"}
    /\ (pc = "summarize") = (Status = "summarizing")
    /\ (Status = "failed") => summarize_calls = 0
    /\ (Done /\ summarize_calls = 1) =>
         /\ Status = "completed"
         /\ Has(research_context, "summary")
         /\ result["success"]
         /\ result["final_summary"] = research_context["summary"]
    /\ analyze_calls = 1 =>
         /\ research_context["iteration"] = 0
         /\ ~Has(research_context, "tool_results")

C4_Witness ==
  /\ Done /\ LeftByComplete /\ analyze_calls = 1 /\ Status = "completed"
  /\ Has(research_context, "summary")

\* the papers array of the tool result an entry of tool_results records
PapersOfEntry(e) ==
  IF Has(e["result"], "result") /\ Has(e["result"]["result"], "papers")
  THEN e["result"]["result"]["papers"]
  ELSE IF Has(e["result"], "papers") THEN e["result"]["papers"] ELSE << >>

RECURSIVE SumPapers(_)
SumPapers(entries) ==
  IF entries = << >> THEN 0
  ELSE Len(PapersOfEntry(Head(entries))) + SumPapers(Tail(entries))

\* the run completed after the planner proposed arxiv_search_papers with
\* {query: "X"} in each of the max_iterations iterations
SearchEveryIteration ==
  /\ Done /\ Status = "completed"
  /\ only_search /\ analyze_calls = max_iterations

\* C5: when the planner proposes arxiv_search_papers with {query: X} in every
\* one of the 10 iterations, the run makes exactly 10 dispatches and the
\* length of discovered_papers, returned as papers_discovered, is the sum of
\* the lengths of the papers arrays of the 10 tool results.
C5_PapersAccumulated ==
  SearchEveryIteration =>
    /\ dispatch_calls = 10
    /\ Len(ToolResults) = 10
    /\ result["papers_discovered"] = Len(discovered_papers)
    /\ Len(discovered_papers) = SumPapers(ToolResults)

\* the part of C5 the code keeps: ten dispatches, ten entries
C5_TenDispatches ==
  SearchEveryIteration => dispatch_calls = 10 /\ Len(ToolResults) = 10

C5_Witness == SearchEveryIteration /\ SumPapers(ToolResults) = 10 * MaxPapers

\* the validation of the iteration at hand came back invalid
ValidationFailed(tv) == Has(tv, "valid") /\ ~tv["valid"]

\* C6: a validation that comes back invalid in iteration i leads to the
\* pause with no dispatch, the context, the accumulators and the status as
\* they were; the pause leads to the loop head with iteration i+1, and the
\* loop head to iteration_(i+1) or, after the last iteration, to summarizing.
C6_InvalidSkips ==
  [][ /\ (pc = "validate" /\ ValidationFailed(tool_validation')) =>
           /\ pc' = "sleep"
           /\ research_context' = research_context
           /\ discovered_papers' = discovered_papers
           /\ analysis_results' = analysis_results
           /\ dispatch_calls' = dispatch_calls
           /\ result' = result
      /\ (pc = "sleep" /\ ValidationFailed(tool_validation)) =>
           /\ pc' = "loop"
           /\ iteration' = iteration + 1
           /\ research_context' = research_context
           /\ dispatch_calls' = dispatch_calls
      /\ pc = "loop" =>
           /\ Status' = IF iteration < max_iterations
                        THEN IterationStatus(iteration) ELSE "summarizing"
           /\ pc' = IF iteration < max_iterations
                    THEN "get_tools" ELSE "summarize" ]_vars

C6_Witness ==
  /\ pc = "sleep" /\ ValidationFailed(tool_validation)
  /\ iteration = max_iterations - 1 /\ dispatch_calls = 2

\* the step is a dispatch that came back to the workflow
DispatchReturned == pc = "dispatch" /\ dispatch_calls' = dispatch_calls + 1

\* C7: when the handler of the validated tool raises, the dispatch adds one
\* entry to the end of tool_results whose result is the envelope with
\* success=false, for the tool of the proposal, and the run goes on to the
\* pause with its status unchanged, not to failed.
C7_HandlerRaiseAbsorbed ==
  [][ (DispatchReturned /\ handler_mode = "raise") =>
        /\ pc' = "sleep"
        /\ Status' = Status
        /\ Len(ToolResults') = Len(ToolResults) + 1
        /\ SubSeq(ToolResults', 1, Len(ToolResults)) = ToolResults
        /\ ToolResults'[Len(ToolResults')]["tool"] = next_action["tool_name"]
        /\ ToolResults'[Len(ToolResults')]["result"]["success"] = FALSE
        /\ Has(ToolResults'[Len(ToolResults')]["result"], "error_type") ]_vars

C7_Witness ==
  /\ pc = "sleep" /\ handler_mode = "raise" /\ Len(ToolResults) = 2
  /\ ToolResults[2]["result"]["success"] = FALSE
  /\ Status = "iteration_4"

\* the iteration at hand dispatched its tool
DispatchedThisIteration ==
  pc = "sleep" /\ Has(tool_validation, "valid") /\ tool_validation["valid"]

\* C8: when the handler returns a value with success=false without raising,
\* the entry appended to tool_results holds an envelope with success=false,
\* and the run goes on with the next iteration.
C8_ReturnedFailureRecorded ==
  (DispatchedThisIteration /\ handler_mode = "fail") =>
    /\ Len(ToolResults) = dispatch_calls
    /\ ToolResults[Len(ToolResults)]["result"]["success"] = FALSE
    /\ Status # "failed"

\* what the code does there: the envelope says success=true and the
\* handler's own success=false lies inside it, as result
C8_Wrapped ==
  (DispatchedThisIteration /\ handler_mode = "fail") =>
    /\ Len(ToolResults) = dispatch_calls
    /\ ToolResults[Len(ToolResults)]["result"]["success"] = TRUE
    /\ ToolResults[Len(ToolResults)]["result"]["result"]["success"] = FALSE
    /\ Status # "failed"

\* the dispatcher was called on its own and the call is over
Called == pc = "called"

\* the call named a tool the dispatcher cannot resolve
UnknownTool == get_tool_handler(call.tool_name) = None

\* the field of an envelope that tells the kind of the error
ErrorKind(envelope) ==
  IF Has(envelope, "error_kind") THEN envelope["error_kind"]
  ELSE Get(envelope, "error_type")

\* C9 as stated: for a tool name the dispatcher cannot resolve the call
\* returns an envelope with success=false whose error kind is "not_found".
C9_NotFoundKind ==
  (Called /\ UnknownTool) =>
    /\ call.out.kind = "return"
    /\ call.out.value["success"] = FALSE
    /\ ErrorKind(call.out.value) = "not_found"

\* C9: for a tool name the dispatcher cannot resolve and any args the call
\* returns, and does not raise, an envelope with success=false, the error
\* "Tool '<name>' not found in registry" and the error_type "ValueError";
\* the envelope has no error_kind and no result.
C9_UnknownToolEnvelope ==
  (Called /\ UnknownTool) =>
    /\ call.out.kind = "return"
    /\ call.out.value["success"] = FALSE
    /\ call.out.value["tool_name"] = call.tool_name
    /\ call.out.value["error"] =
         <<"Tool '", call.tool_name, "' not found in registry">>
    /\ call.out.value["error_type"] = "ValueError"
    /\ ~Has(call.out.value, "error_kind")
    /\ ~Has(call.out.value, "result")

C9_Witness ==
  /\ Called /\ call.tool_name = "web_search" /\ call.mode = "raise"
  /\ call.out.kind = "return" /\ call.out.value["success"] = FALSE

\* what invoking the handler of the call yielded
HandlerOutcome ==
  call_handler(IF call.blocking THEN "blocking_handler"
               ELSE get_tool_handler(call.tool_name),
               call.tool_args, call.mode, MaxPapers)

\* C10: when the handler of a resolvable tool raises, be the handler a
\* coroutine function or a blocking one run in the executor, the call
\* returns an envelope with success=false, error the message of the
\* exception and error_type the name of its class; nothing is raised to the
\* caller.
C10_HandlerRaiseCaptured ==
  (Called /\ ~UnknownTool /\ HandlerOutcome.kind = "raise") =>
    /\ call.out.kind = "return"
    /\ call.out.value["success"] = FALSE
    /\ call.out.value["tool_name"] = call.tool_name
    /\ call.out.value["error"] = HandlerOutcome.msg
    /\ call.out.value["error_type"] = HandlerOutcome.cls
    /\ ~Has(call.out.value, "result")

C10_Witness ==
  /\ Called /\ call.blocking /\ call.tool_name = "process_pdf"
  /\ HandlerOutcome.kind = "raise"
  /\ call.out.kind = "return"
  /\ call.out.value["error_type"] = "RuntimeError"

\* the tool of the call is in the catalog
InCatalog == call.tool_name \in DOMAIN TOOL_DESCRIPTIONS

\* the elements of a list
Elements(xs) == {xs[i] : i \in 1..Len(xs)}

\* C11: for a tool name that is not in the catalog, whatever the args,
\* validate_tool_usage returns valid=false, the reason "Tool '<name>' not
\* found in registry" and as available_tools the names of the catalog, each
\* of them once.
C11_UnknownToolRejected ==
  (Called /\ ~InCatalog) =>
    /\ call.out["valid"] = FALSE
    /\ call.out["reason"] =
         <<"Tool '", call.tool_name, "' not found in registry">>
    /\ Has(call.out, "available_tools")
    /\ Elements(call.out["available_tools"]) = DOMAIN TOOL_DESCRIPTIONS
    /\ Len(call.out["available_tools"]) = Cardinality(DOMAIN TOOL_DESCRIPTIONS)

C11_Witness ==
  /\ Called /\ call.tool_name = "web_search"
  /\ Get(call.tool_args, "query") = "v"
  /\ call.out["valid"] = FALSE

\* the tools the validator has a case of its own for
SpecialTools == {"extract_citations", "arxiv_search_papers"} \cup PaperIdTools

\* the keys of a descriptor whose text does not mark them optional
RequiredKeys(tool_name) ==
  {k \in DOMAIN TOOL_DESCRIPTIONS[tool_name].args :
     TOOL_DESCRIPTIONS[tool_name].args[k] = "text"}

\* the call is for a tool whose arguments are required or optional only
GenericCall == Called /\ InCatalog /\ call.tool_name \notin SpecialTools

\* C12: for a tool whose arguments are purely required or optional the
\* validation returns valid=false exactly when a required key is absent from
\* the args or present with a falsy value (the empty string, None), for every
\* choice of the required and optional keys present.
C12_RequiredAbsentOrFalsy ==
  GenericCall =>
    (call.out["valid"] = FALSE) =
      (\E k \in RequiredKeys(call.tool_name) :
         ~Has(call.tool_args, k) \/ ~Truthy(call.tool_args[k]))

\* what the code does for these tools: a required key counts as missing
\* only when the args do not hold it; its value is not looked at
C12_RequiredAbsent ==
  GenericCall =>
    (call.out["valid"] = FALSE) =
      (\E k \in RequiredKeys(call.tool_name) : ~Has(call.tool_args, k))

\* the fields of which a special-cased tool needs one
DisjunctiveFields(tool_name) ==
  IF tool_name = "extract_citations" THEN {"paper_text", "paper_url"}
  ELSE IF tool_name = "arxiv_search_papers" THEN {"query"}
  ELSE {"paper_id"}

\* C13: for a special-cased tool the validation returns valid=true exactly
\* when one of its disjunctive fields (paper_text, paper_url for
\* extract_citations; query for arxiv_search_papers; paper_id for the paper
\* tools) is present and truthy, whatever other keys the args hold; for
\* extract_citations with {} it returns valid=false and a reason that holds
\* both "paper_text" and "paper_url".
C13_SpecialCases ==
  (Called /\ call.tool_name \in SpecialTools) =>
    /\ call.out["valid"] =
         (\E f \in DisjunctiveFields(call.tool_name) :
            Truthy(Get(call.tool_args, f)))
    /\ (call.tool_name = "extract_citations" /\ DOMAIN call.tool_args = {}) =>
         /\ call.out["valid"] = FALSE
         /\ {"paper_text", "paper_url"} \subseteq Elements(call.out["reason"])

C13_Witness ==
  /\ Called /\ call.tool_name = "extract_citations"
  /\ DOMAIN call.tool_args = {}
  /\ call.out["valid"] = FALSE

\* a dict without the keys outside S
Restrict(d, S) == [k \in (DOMAIN d) \cap S |-> d[k]]

\* C14: a validation that returns valid=true returns the input args as
\* validated_args, the keys the descriptor does not list included, and the
\* verdict is the one the args without those keys get.
C14_ArgsEchoed ==
  (Called /\ InCatalog) =>
    /\ call.out["valid"] => call.out["validated_args"] = call.tool_args
    /\ call.out["valid"] =
         validate_tool_usage(
           call.tool_name,
           Restrict(call.tool_args,
                    DOMAIN TOOL_DESCRIPTIONS[call.tool_name].args))["valid"]

C14_Witness ==
  /\ Called /\ call.tool_name = "process_pdf" /\ call.out["valid"]
  /\ Has(call.tool_args, ExtraKey)
  /\ Get(call.out["validated_args"], ExtraKey) = "v"

\* the step is a call of _update_context_with_results made on its own
MergeStep == pc = "call" /\ call'.count = call.count + 1

C15_AppendsUnlessRaised ==
  (pc = "call" /\ call.count > 0) =>
    /\ Len(ToolResults) = call.count - call.raises
    /\ call.raised =
         /\ call.tool_name = "arxiv_read_paper"
         /\ SuccessOf(call.tool_result)
         /\ Has(call.tool_result, "content")
         /\ Has(call.tool_result, "paper_id")
         /\ ~IsDict(call.tool_result["content"])
    /\ ~call.raised =>
         /\ ToolResults[Len(ToolResults)]["timestamp"] = call.count - 1
         /\ ToolResults[Len(ToolResults)]["tool"] = call.tool_name
         /\ ToolResults[Len(ToolResults)]["result"] = call.tool_result

\* C16: at every point of a run tool_results has one entry for each
\* dynamic_tool_activity dispatch that came back, in the order of the
\* dispatches and for the tool dispatched, and never more than
\* max_iterations entries.
C16_MergedOnce ==
  /\ Len(ToolResults) = dispatch_calls
  /\ Len(ToolResults) <= max_iterations
  /\ \A k \in 1..Len(ToolResults) :
       /\ ToolResults[k]["timestamp"] = k - 1
       /\ ToolResults[k]["tool"] = planner_tool
       /\ ToolResults[k]["result"]["tool_name"] = planner_tool

C16_Witness ==
  Done /\ Status = "completed" /\ Len(ToolResults) = max_iterations

\* the step changed what the workflow object holds under a key of the context
KeyChanged(k) ==
  \/ Has(research_context', k) # Has(research_context, k)
  \/ Has(research_context, k) /\ research_context'[k] # research_context[k]

Categories == {"search", "download", "read", "citation", "pdf", "similarity"}

\* the keys of the context a category of the merge writes
CategoryKeys(c) ==
  IF c = "search" THEN {"papers_count", "papers_downloaded"}
  ELSE IF c = "download" THEN {"downloaded_papers"}
  ELSE IF c = "read" THEN {"read_papers", "extracted_content"}
  ELSE IF c = "citation" THEN {"citations", "citation_network"}
  ELSE IF c = "pdf" THEN {"analysis_count"}
  ELSE {"similar_papers", "similarity_scores"}

CategoryChanged(c) ==
  \/ \E k \in CategoryKeys(c) : KeyChanged(k)
  \/ c = "search" /\ discovered_papers' # discovered_papers
  \/ c = "pdf" /\ analysis_results' # analysis_results

\* C17: a call of the merge for arxiv_search_papers or arxiv_search leaves
\* citations, citation_network, similar_papers and similarity_scores as they
\* were, whatever keys the tool result holds; and a call for any tool name
\* changes the accumulators of one category at most.
C17_CategoryExclusive ==
  [][ MergeStep =>
        /\ call'.tool_name \in {"arxiv_search_papers", "arxiv_search"} =>
             \A k \in {"citations", "citation_network", "similar_papers",
                       "similarity_scores"} : ~KeyChanged(k)
        /\ Cardinality({c \in Categories : CategoryChanged(c)}) <= 1 ]_vars

C17_Witness ==
  /\ call.count = 2 /\ call.tool_name = "arxiv_search_papers"
  /\ Has(call.tool_result, "citations")
  /\ Has(call.tool_result, "similar_papers")
  /\ Len(discovered_papers) = 1
  /\ Has(research_context, "citations")
  /\ Len(research_context["citations"]) = 2
  /\ ~Has(research_context, "similar_papers")

\* the lists the context holds
ListKeys ==
  {"tool_results", "downloaded_papers", "read_papers", "citations",
   "similar_papers", "similarity_scores", "extracted_content"}

\* b starts with the elements of a
IsPrefix(a, b) == Len(a) <= Len(b) /\ \A i \in 1..Len(a) : b[i] = a[i]

\* C18: a call of the merge leaves every accumulator (tool_results,
\* discovered_papers, downloaded_papers, read_papers, citations,
\* similar_papers, similarity_scores, extracted_content, analysis_results)
\* at least as long as it was, with the elements it had in their places.
C18_AppendOnly ==
  [][ MergeStep =>
        /\ Len(ToolResults') >= Len(ToolResults)
        /\ \A i \in 1..Len(ToolResults) :
             ToolResults'[i]["timestamp"] = ToolResults[i]["timestamp"]
        /\ \A k \in ListKeys :
             Has(research_context, k) =>
               /\ Has(research_context', k)
               /\ IsPrefix(research_context[k], research_context'[k])
        /\ IsPrefix(discovered_papers, discovered_papers')
        /\ IsPrefix(analysis_results, analysis_results') ]_vars

C18_Witness ==
  /\ call.count = 2 /\ call.tool_name = "extract_citations"
  /\ Len(ToolResults) = 2
  /\ Has(research_context, "citations")
  /\ Len(research_context["citations"]) = 4

\* the step is the return of the llm_analyze call in summarize mode
SummaryReturned == pc = "summarize" /\ summarize_calls' = summarize_calls + 1

\* C19: a run calls llm_analyze in summarize mode once at most, after the
\* loop; when that call returns, be it with a summary that has success=true
\* or with the fallback summary that has success=false, the run sets the
\* status completed, keeps the summary and returns success=true with it; a
\* completed run has made the call exactly once.
C19_SummaryCompletes ==
  /\ [](/\ summarize_calls <= 1
        /\ summarize_calls = 1 => Done
        /\ Status = "completed" => summarize_calls = 1)
  /\ [][ SummaryReturned =>
           /\ summarize_calls = 0
           /\ Status = "summarizing"
           /\ pc' = "done"
           /\ Status' = "completed"
           /\ result'["success"] = TRUE
           /\ result'["final_summary"] = research_context'["summary"]
           /\ Has(result'["final_summary"], "success")
           /\ result'["final_summary"]["success"] = FALSE =>
                Has(result'["final_summary"], "fallback_summary") ]_vars

C19_Witness ==
  /\ Done /\ Status = "completed" /\ summarize_calls = 1
  /\ result["success"] = TRUE
  /\ result["final_summary"]["success"] = FALSE
  /\ Has(result["final_summary"], "fallback_summary")

\* the plan attached to the context is the one returned after a failed call
PlanFellBack ==
  Has(research_context, "plan") /\ research_context["plan"]["success"] = FALSE

\* C20: when the planning call fails, llm_plan_research returns a result
\* with success=false and a fallback_plan whose key_concepts and
\* search_terms are the raw query alone; the run attaches what
\* llm_plan_research returns as plan with status planning_complete, and the
\* loop head then starts iteration_0, with a fallback plan as with a plan.
C20_FallbackPlanProceeds ==
  /\ [](PlanFellBack =>
          /\ Has(research_context["plan"], "fallback_plan")
          /\ research_context["plan"]["fallback_plan"]["key_concepts"] =
               <<research_context["query"]>>
          /\ research_context["plan"]["fallback_plan"]["search_terms"] =
               <<research_context["query"]>>
          /\ Status # "initializing")
  /\ [][ (pc = "plan" /\ pc' # "done") =>
           /\ pc' = "loop"
           /\ Has(research_context', "plan")
           /\ Has(research_context'["plan"], "success")
           /\ Status' = "planning_complete" ]_vars
  /\ [][ (pc = "loop" /\ Status = "planning_complete") =>
           /\ iteration = 0
           /\ pc' = "get_tools"
           /\ Status' = "iteration_0"
           /\ research_context'["plan"] = research_context["plan"] ]_vars

C20_Witness ==
  PlanFellBack /\ pc = "get_tools" /\ Status = "iteration_0" /\ iteration = 0

\* C21: when the model fails in next_action mode, llm_analyze returns
\* {action: "complete", reason, error: true}; the run then validates and
\* dispatches nothing in that iteration, catches no exception, leaves the loop
\* and goes on to summarizing.
C21_AnalyzeFailureCompletes ==
  [][(pc = "analyze" /\ Has(next_action', "error")) =>
       /\ next_action'["action"] = "complete"
       /\ Has(next_action', "reason")
       /\ next_action'["error"] = TRUE
       /\ pc' = "summarize"
       /\ research_context'["status"] = "summarizing"
       /\ tool_validation' = tool_validation
       /\ dispatch_calls' = dispatch_calls
       /\ raises' = raises
       /\ result' = result]_vars

C21_Witness ==
  /\ pc = "summarize"
  /\ Has(next_action, "error")
  /\ iteration = 2
  /\ dispatch_calls = 2
  /\ research_context["status"] = "summarizing"

\* C22: when a step the run awaits, or the merge, raises into the workflow,
\* the run ends at once with status failed and error the message of the
\* exception, returns {success: false, error, research_context}, and after
\* that does nothing more: no activity, no second attempt.
C22_RaiseEndsRun ==
  [][/\ Len(raises') = Len(raises) + 1 =>
          /\ pc' = "done"
          /\ research_context'["status"] = "failed"
          /\ research_context'["error"] = raises'[Len(raises')]
          /\ result' = [success |-> FALSE,
                        error |-> raises'[Len(raises')],
                        research_context |-> research_context']
          /\ analyze_calls' = analyze_calls
          /\ summarize_calls' = summarize_calls
     /\ Len(raises') <= 1
     /\ pc = "done" => vars' = vars]_vars

C22_Witness ==
  /\ pc = "done"
  /\ raises = << ActivityError >>
  /\ research_context["status"] = "failed"
  /\ research_context["error"] = ActivityError
  /\ result["success"] = FALSE
  /\ iteration = 1
  /\ dispatch_calls = 1

\* C27: the run validates and dispatches a tool only for a proposal whose
\* action is "use_tool"; a proposal with another action, or with none, leads
\* to no validate_tool_usage and no dynamic_tool_activity call even when it
\* carries tool_name and tool_args.
C27_OnlyUseToolDispatched ==
  pc \in {"validate", "dispatch"} => Get(next_action, "action") = "use_tool"

\* C30: the iteration field of the context never decreases, never exceeds
\* max_iterations, and equals i whenever the status is iteration_i.
C30_IterationField ==
  /\ [][research_context'["iteration"] >= research_context["iteration"]]_vars
  /\ [](/\ research_context["iteration"] \in 0..max_iterations
        /\ \A i \in 0..max_iterations :
             research_context["status"] = IterationStatus(i) =>
               research_context["iteration"] = i)

C30_Witness ==
  /\ research_context["status"] = "iteration_9"
  /\ research_context["iteration"] = 9
  /\ pc = "dispatch"
  /\ dispatch_calls = 9

\* C23 as claimed: while llm_analyze, the step that was given the context,
\* is in flight, the context is not mutated.
C23_NoMutationInFlight ==
  [][(pc \in {"analyze", "summarize"} /\ pc' = pc) =>
       research_context' = research_context]_vars

\* C23: the steps of a run execute one after the other, and run itself
\* mutates the context only when the step it awaits has returned or raised.
\* While a step is in flight the one mutation of the context is that of the
\* signal update_research_focus, which sets the key updated_focus and nothing
\* else, and no activity is started or finished by it.
C23_OnlySignalMutatesInFlight ==
  [][(Suspended /\ pc' = pc) =>
       /\ Has(research_context', "updated_focus")
       /\ research_context' =
            Put(research_context, "updated_focus",
                research_context'["updated_focus"])
       /\ UNCHANGED << discovered_papers, analysis_results, result, history >>]_vars

C23_Witness ==
  /\ pc = "analyze"
  /\ analyze_calls = 1
  /\ Get(research_context, "updated_focus") = "f2"
  /\ research_context["status"] = "iteration_1"

\* the attributes of the workflow object after the merges of the entries
\* of tool_results, made one after the other from the attributes st
RECURSIVE Replay(_, _)
Replay(st, entries) ==
  IF entries = << >> THEN st
  ELSE Replay(update_context_with_results(st, Head(entries)["result"],
                                          Head(entries)["tool"],
                                          Head(entries)["timestamp"]),
              Tail(entries))

\* the keys of the context the merge writes
MergeKeys == UNION {CategoryKeys(c) : c \in Categories} \cup {"tool_results"}

\* every accumulator holds the whole effect of the merges of the entries of
\* tool_results and nothing else
MergesWhole ==
  LET r == Replay([research_context |-> [query |-> research_context["query"]],
                   discovered_papers |-> << >>,
                   analysis_results |-> << >>,
                   raised |-> FALSE],
                  ToolResults)
  IN /\ ~r.raised
     /\ discovered_papers = r.discovered_papers
     /\ analysis_results = r.analysis_results
     /\ \A k \in MergeKeys :
          /\ Has(research_context, k) = Has(r.research_context, k)
          /\ Has(research_context, k) =>
               research_context[k] = r.research_context[k]

\* C24: once a run is cancelled it starts no dynamic_tool_activity (it takes
\* no step at all), and at every moment, before and after a cancellation,
\* the accumulators of the context hold for each tool result either all the
\* effects of its merge, tool_results entry included, or none.
C24_CancelStopsRun ==
  /\ [](cancelled => pc \in {"done", "cancelled"})
  /\ [][cancelled => vars' = vars]_vars
  /\ [](MergesWhole /\ Len(ToolResults) = dispatch_calls)

C24_Witness ==
  /\ cancelled
  /\ pc = "cancelled"
  /\ dispatch_calls = 2
  /\ Len(ToolResults) = 2
  /\ research_context["status"] = "iteration_2"
  /\ iteration = 2

\* C25: register_tool(name, handler, description) makes get_tool_handler(name)
\* return handler and the description table map name to description;
\* unregister_tool(name) returns true exactly when name was registered at the
\* call, and then name is in neither table; when it returns false both tables
\* are as they were.
C25_RegisterUnregister ==
  [][/\ call'.op = "register_tool" =>
          /\ registry_get_tool_handler(TOOL_REGISTRY', call'.name) = call'.handler
          /\ Has(REGISTRY_TOOL_DESCRIPTIONS', call'.name)
          /\ REGISTRY_TOOL_DESCRIPTIONS'[call'.name] = call'.description
     /\ call'.op = "unregister_tool" =>
          /\ call'.ret = Has(TOOL_REGISTRY, call'.name)
          /\ call'.ret =>
               /\ ~Has(TOOL_REGISTRY', call'.name)
               /\ ~Has(REGISTRY_TOOL_DESCRIPTIONS', call'.name)
               /\ registry_get_tool_handler(TOOL_REGISTRY', call'.name) = None
          /\ ~call'.ret => UNCHANGED registry]_vars

C25_Witness ==
  /\ call.op = "unregister_tool"
  /\ call.name = "dummy_tool"
  /\ call.ret = TRUE
  /\ call.count = 2
  /\ ~Has(TOOL_REGISTRY, "dummy_tool")

\* C28: the tables of tools/registry.py are what the validator and the
\* dispatcher of the loop go by: a name is known to validate_tool_usage, as
\* the workflow calls it, exactly when it is registered, and the dispatcher
\* resolves it to the handler registered for it, to none when it is not
\* registered.
C28_CatalogSingleSource ==
  \A name \in RegistryNames :
    /\ Has(TOOL_REGISTRY, name) =
         ~Has(validate_tool_usage(name, [pdf_url |-> "u1"]), "available_tools")
    /\ get_tool_handler(name) = registry_get_tool_handler(TOOL_REGISTRY, name)

\* C29: after any sequence of register_tool and unregister_tool calls from
\* the tables as loaded, TOOL_REGISTRY and TOOL_DESCRIPTIONS hold the same
\* names.
C29_TablesSameNames ==
  DOMAIN TOOL_REGISTRY = DOMAIN REGISTRY_TOOL_DESCRIPTIONS

C29_Witness ==
  /\ call.count = MaxOps
  /\ Has(TOOL_REGISTRY, "temp_tool")
  /\ Has(REGISTRY_TOOL_DESCRIPTIONS, "temp_tool")
  /\ ~Has(TOOL_REGISTRY, "process_pdf")
  /\ ~Has(REGISTRY_TOOL_DESCRIPTIONS, "process_pdf")

\* C26: every activity step of the loop is attempted a bounded number of
\* times: no step is in an attempt beyond the largest number of attempts a
\* call of run allows.
C26_AttemptsBounded ==
  AwaitingActivity =>
    \E step \in ActivitySteps : attempt <= maximum_attempts(step)

\* the keys of the context given at its creation
IdentityKeys == {"query", "user_id", "document_id"}

\* the key k of the context is written by the step
Written(k) ==
  \/ Has(research_context', k) /\ ~Has(research_context, k)
  \/ Has(research_context', k) /\ Has(research_context, k)
       /\ research_context'[k] # research_context[k]

\* C31: the context has an error only when its status is failed and a
\* summary only when its status is completed; plan is written once, by the
\* step that leaves initializing, and summary once; query, user_id and
\* document_id stay what they were at creation; no key once written is
\* removed.
C31_ContextFields ==
  /\ [](Has(research_context, "error") => research_context["status"] = "failed")
  /\ [](Has(research_context, "summary") =>
          research_context["status"] = "completed")
  /\ [][/\ Written("plan") =>
             /\ research_context["status"] = "initializing"
             /\ ~Has(research_context, "plan")
             /\ research_context'["status"] # "initializing"
        /\ Written("summary") => ~Has(research_context, "summary")
        /\ \A k \in IdentityKeys :
             /\ Has(research_context', k)
             /\ research_context'[k] = research_context[k]
        /\ \A k \in {"plan", "summary", "error"} :
             Has(research_context, k) => Has(research_context', k)]_vars

C31_Witness ==
  /\ pc = "done"
  /\ research_context["status"] = "completed"
  /\ Has(research_context, "summary")
  /\ Has(research_context, "plan")
  /\ ~Has(research_context, "error")
  /\ research_context["query"] = "X"
  /\ iteration = 2

\* C32: validate_tool_usage of tools/registry.py returns valid=false for
\* arxiv_search_papers when query is present with a falsy value (the empty
\* string, None), and valid=true when query is truthy and a key no
\* description lists is present as well.
C32_FalsyQueryInvalid ==
  (Called /\ call.tool_name = "arxiv_search_papers"
     /\ Has(call.tool_args, "query")) =>
    /\ ~Truthy(call.tool_args["query"]) => call.out["valid"] = FALSE
    /\ (Truthy(call.tool_args["query"]) /\ Has(call.tool_args, ExtraKey)) =>
         call.out["valid"] = TRUE

\* the args hold the keys S and no other, each with a truthy value
ExactlyTruthy(S) ==
  /\ DOMAIN call.tool_args = S
  /\ \A k \in S : Truthy(call.tool_args[k])

\* C33: for every registered tool, validate_tool_usage of tools/registry.py
\* returns valid=true for args that hold exactly the required arguments of
\* the tool, truthy, and no optional one; for extract_citations it returns
\* valid=true for paper_text alone and for paper_url alone, and valid=false
\* when the args hold neither.
C33_RequiredOnlyValid ==
  (Called /\ InCatalog) =>
    IF call.tool_name = "extract_citations"
    THEN /\ (ExactlyTruthy({"paper_text"}) \/ ExactlyTruthy({"paper_url"})) =>
              call.out["valid"] = TRUE
         /\ (~Has(call.tool_args, "paper_text")
               /\ ~Has(call.tool_args, "paper_url")) =>
              call.out["valid"] = FALSE
    ELSE ExactlyTruthy(RequiredKeys(call.tool_name)) =>
           call.out["valid"] = TRUE

\* the reference numbers written in the text of the call
NumbersWritten ==
  {c.reference_number :
     c \in {x \in Elements(call.args["paper_text"].cites) : x.type = "numbered"}}

\* C34: extract_citations drops repeats only: for a text with bracketed
\* reference numbers the citations returned hold one numbered entry for each
\* distinct number written, and count is the number of distinct citations
\* written.
C34_OneEntryPerNumber ==
  (Called /\ call.out["success"]) =>
    /\ \A n \in NumbersWritten :
         Cardinality({i \in 1..Len(call.out["citations"]) :
                        /\ call.out["citations"][i]["type"] = "numbered"
                        /\ call.out["citations"][i]["reference_number"] = n}) = 1
    /\ call.out["count"] =
         Cardinality(Elements(call.args["paper_text"].cites))

\* the step is the return of ensure_mcp_server_available with True to t
EnsureReturnsTrue(t) ==
  /\ tasks'[t].pc = "idle"
  /\ tasks'[t].ret = [value |-> TRUE]
  /\ tasks[t].pc = "start_server" \/ tasks'[t] # tasks[t]

\* C36: when ensure_mcp_server_available returns true, the global client is
\* there and has done the initialize handshake, whatever calls came before
\* and whatever calls are under way.
C36_EnsuredClientInitialized ==
  [][\A t \in Tasks :
       EnsureReturnsTrue(t) =>
         /\ _mcp_client' # NoClient
         /\ clients'[_mcp_client'].initialized]_vars

\* C35: arxiv_list_papers lists every paper downloaded to the storage: called
\* with no category filter and a limit above the number of stored papers
\* after arxiv_download_paper has stored papers, it returns a papers list
\* that holds each of them and a total_downloaded that counts them.
C35_DownloadedAreListed ==
  (/\ call.op = "arxiv_list_papers"
   /\ ~Truthy(call.args["category_filter"])
   /\ call.args["limit"] > Cardinality(storage.paper_files)) =>
    /\ call.out["success"]
    /\ \A p \in storage.paper_files :
         \E i \in 1..Len(call.out["papers"]) : call.out["papers"][i]["id"] = p
    /\ call.out["total_downloaded"] = Cardinality(storage.paper_files)

\* the keys of the context that hold the lists the merge appends to
AccumulatorKeys ==
  {"citations", "similar_papers", "similarity_scores", "extracted_content",
   "downloaded_papers", "read_papers"}

\* the key sets of the two envelopes dynamic_tool_activity returns
EnvelopeKeys ==
  {{"success", "tool_name", "result", "metadata"},
   {"success", "tool_name", "error", "error_type", "metadata"}}

\* no accumulator of the attributes st holds an element and no citation
\* network is set
NothingAccumulated(st) ==
  /\ st.discovered_papers = << >>
  /\ st.analysis_results = << >>
  /\ \A k \in AccumulatorKeys :
       Has(st.research_context, k) => st.research_context[k] = << >>
  /\ ~Has(st.research_context, "citation_network")

\* C37: in a run every result handed to the merge is the envelope of
\* dynamic_tool_activity, so only tool_results grows: discovered_papers,
\* analysis_results and the accumulator lists of the context hold no element,
\* citation_network is not set, a completed run returns papers_discovered 0
\* and analysis_count 0, and merging the envelope of any tool of the
\* dispatcher into the attributes of the run leaves all of that so.
C37_OnlyToolResultsGrows ==
  /\ NothingAccumulated(Attributes)
  /\ \A i \in 1..Len(ToolResults) :
       DOMAIN ToolResults[i]["result"] \in EnvelopeKeys
  /\ (Done /\ result["success"]) =>
       /\ result["papers_discovered"] = 0
       /\ result["analysis_count"] = 0
  /\ \A t \in DOMAIN HANDLERS : \A mode \in HandlerModes :
       LET out == dynamic_tool_activity(t, MergeArgs(t), mode, MaxPapers)
       IN /\ out.kind = "return"
          /\ DOMAIN out.value \in EnvelopeKeys
          /\ NothingAccumulated(Merged(out.value, t, dispatch_calls))
          /\ Len(Merged(out.value, t, dispatch_calls)
                   .research_context["tool_results"]) = Len(ToolResults) + 1

C37_Witness ==
  /\ Done
  /\ result["success"]
  /\ dispatch_calls >= 2
  /\ Len(ToolResults) = dispatch_calls
  /\ \A i \in 1..Len(ToolResults) :
       /\ ToolResults[i]["tool"] = "arxiv_search_papers"
       /\ ToolResults[i]["result"]["success"]
       /\ Len(ToolResults[i]["result"]["result"]["papers"]) = MaxPapers

\* the context with the key updated_focus left out
WithoutFocus(rc) == [k \in DOMAIN rc \ {"updated_focus"} |-> rc[k]]

\* the attributes of the workflow object with updated_focus left out
AttributesWithoutFocus ==
  [Attributes EXCEPT !.research_context = WithoutFocus(research_context)]

\* what the step run is suspended at computes from the context is what it
\* computes from the context without updated_focus
FocusNotRead ==
  /\ pc = "analyze" =>
       \A llm_ok \in BOOLEAN : \A p \in Proposals(planner_tool) :
         llm_analyze(research_context, available_tools, "next_action",
                     llm_ok, p)
           = llm_analyze(WithoutFocus(research_context), available_tools,
                         "next_action", llm_ok, p)
  /\ pc = "summarize" =>
       \A llm_ok \in BOOLEAN :
         llm_analyze(research_context, << >>, "summarize", llm_ok, Unset)
           = llm_analyze(WithoutFocus(research_context), << >>, "summarize",
                         llm_ok, Unset)
  /\ pc = "dispatch" =>
       LET out == dynamic_tool_activity(next_action["tool_name"],
                                        next_action["tool_args"],
                                        handler_mode, search_papers)
           with == Merged(out.value, next_action["tool_name"], dispatch_calls)
           without == update_context_with_results(
                        AttributesWithoutFocus, out.value,
                        next_action["tool_name"], dispatch_calls)
       IN /\ WithoutFocus(with.research_context) = without.research_context
          /\ with.discovered_papers = without.discovered_papers
          /\ with.analysis_results = without.analysis_results
          /\ with.raised = without.raised

NotFoundInRegistry(tool_name) ==
  <<"Tool '", tool_name, "' not found in registry">>

\* arguments that hold, with a non-empty value, every key a tool requires
EveryRequiredArg ==
  [query |-> "X", paper_id |-> "p1", paper_text |-> "t", paper_ids |-> "ids",
   pdf_url |-> "u1", reference_paper |-> "r", paper1_text |-> "a",
   paper2_text |-> "b"]

\* C39: every tool name the validator of the workflow accepts, that is every
\* key of TOOL_DESCRIPTIONS, is resolved to a handler by the dispatcher, and
\* a validation that succeeds names a tool the dispatcher resolves; so in a
\* run the dispatch is reached only with a valid validation of a resolved
\* tool, and no entry of tool_results carries the envelope "Tool '<name>'
\* not found in registry".
C39_ValidatedToolResolved ==
  /\ \A t \in DOMAIN TOOL_DESCRIPTIONS : get_tool_handler(t) # None
  /\ \A t \in DOMAIN TOOL_DESCRIPTIONS \cup MergeNames :
       \A args \in {EveryRequiredArg, ValidArgs(t), InvalidArgs} :
         validate_tool_usage(t, args)["valid"] => get_tool_handler(t) # None
  /\ pc = "dispatch" =>
       /\ Has(tool_validation, "valid") /\ tool_validation["valid"]
       /\ tool_validation["tool_name"] = next_action["tool_name"]
       /\ get_tool_handler(next_action["tool_name"]) # None
  /\ \A i \in 1..Len(ToolResults) :
       Has(ToolResults[i]["result"], "error") =>
         ToolResults[i]["result"]["error"]
           # NotFoundInRegistry(ToolResults[i]["tool"])

C39_Witness ==
  /\ pc = "sleep"
  /\ Has(tool_validation, "valid") /\ tool_validation["valid"]
  /\ tool_validation["tool_name"] = "process_pdf"
  /\ Len(ToolResults) = 1
  /\ ToolResults[1]["tool"] = "process_pdf"
  /\ ToolResults[1]["result"]["success"]
  /\ validate_tool_usage("process_pdf", EveryRequiredArg)["valid"]

====
